---- MODULE Spec2Model ----
(***************************************************************************)
(* Snap Chef: the provider fallback orchestration of src/lib/api.ts        *)
(* (FoodApiService over OpenAI, Clarifai, Spoonacular) and of              *)
(* src/lib/aiServices.ts (FoodDetectionService, RecipeGenerationService,   *)
(* NutritionalAnalysisService), and the upload page (pages/Index.tsx and   *)
(* its API-backed version) with its mock detection, its keyed mock recipe  *)
(* sets and its saved recipes.                                             *)
(*                                                                         *)
(* Spec is the services and the page; SpecNutrition, SpecLookup and        *)
(* SpecSave are the nutrition lookup, category lookups made in a row, and  *)
(* the saving of shown recipes, each on its own.                           *)
(*                                                                         *)
(* JavaScript values are tagged records [t |-> type, v |-> value]. A       *)
(* string that the code inspects (toLowerCase, includes, split) is a       *)
(* sequence of one-character strings; a literal the code only copies is a  *)
(* sequence of longer chunks. A confidence is a fixed-point number in      *)
(* thousandths (0.95 is 950); other numbers are plain integers.            *)
(***************************************************************************)
EXTENDS Integers, Sequences, FiniteSets, TLC

VARIABLES
    apiKeys,    \* which credentials the environment holds (read once)
    pc,         \* position of the call in flight: "idle", an await, "done"
    op,         \* the operation being executed
    arg,        \* its arguments
    requests,   \* requests issued to providers during this call, in order
    response,   \* the answer that settled the latest await of this call
    failed,     \* providers whose request failed during this call
    result,     \* how the call ended: nothing yet, a returned value, a throw
    page        \* the upload page: its React state, timers and pending await

vars == <<apiKeys, pc, op, arg, requests, response, failed, result, page>>

\* ---------------------------------------------------------------- bounds

\* Longest concept / label / prediction list a detection provider answers with.
MaxConcepts == 2

\* Longest recipe array a generative provider answers with.
MaxRecipes == 5

\* Most candidates the recipe search answers with.
MaxCandidates == 2

\* Largest count a caller asks RecipeGenerationService for.
MaxCount == 4

\* Most setTimeout callbacks of the page pending at once.
MaxTimers == 2

\* ------------------------------------------------------- JavaScript values

Undef == [t |-> "undefined"]

Null == [t |-> "null"]

NaN == [t |-> "NaN"]

Str(s) == [t |-> "string", v |-> s]

Num(n) == [t |-> "number", v |-> n]

Arr(a) == [t |-> "array", v |-> a]

Obj(r) == [t |-> "object", v |-> r]

\* 1.0 as a fixed-point confidence.
ConfOne == 10 * 100

\* JavaScript truthiness: undefined, null, NaN, 0 and "" are falsy.
Falsy(x) ==
    \/ x.t \in {"undefined", "null", "NaN"}
    \/ x.t = "number" /\ x.v = 0
    \/ x.t = "string" /\ x.v = <<>>

\* a || b
OrElse(a, b) == IF Falsy(a) THEN b ELSE a

\* Reading a property of undefined or null raises a TypeError.
Nullish(x) == x.t \in {"undefined", "null"}

\* obj.field of a parsed JSON value: undefined when obj is not an object or
\* lacks the field.
Field(x, f) ==
    IF x.t = "object" /\ f \in DOMAIN x.v THEN x.v[f] ELSE Undef

Digits == <<"0", "1", "2", "3", "4", "5", "6", "7", "8", "9">>

IsDigit(c) == \E d \in 1..10 : Digits[d] = c

DigitValue(c) == (CHOOSE d \in 1..10 : Digits[d] = c) - 1

\* Length of the longest prefix of s, from position i, made of digits.
RECURSIVE DigitRun(_, _)
DigitRun(s, i) ==
    IF i <= Len(s) /\ IsDigit(s[i]) THEN 1 + DigitRun(s, i + 1) ELSE 0

RECURSIVE DigitsValue(_)
DigitsValue(s) ==
    IF s = <<>> THEN 0
    ELSE 10 * DigitsValue(SubSeq(s, 1, Len(s) - 1)) + DigitValue(s[Len(s)])

\* The fraction digits d1 d2 d3 ... as thousandths (digits past the third
\* are below the fixed-point resolution).
FractionValue(s) ==
    LET d(i) == IF i <= Len(s) THEN DigitValue(s[i]) ELSE 0
    IN  100 * d(1) + 10 * d(2) + d(3)

\* parseFloat on a string of digits and dots: the longest prefix of the
\* form digits [. digits], NaN when that prefix holds no digit.
parseFloat(s) ==
    LET ni == DigitRun(s, 1)
        hasDot == ni + 1 <= Len(s) /\ s[ni + 1] = "."
        nf == IF hasDot THEN DigitRun(s, ni + 2) ELSE 0
    IN  IF ni + nf = 0 THEN NaN
        ELSE Num(ConfOne * DigitsValue(SubSeq(s, 1, ni))
                 + FractionValue(SubSeq(s, ni + 2, ni + 1 + nf)))

\* ToNumber, as Math.max / Math.min / Math.round apply it to an argument.
ToNumber(x) ==
    CASE x.t = "number" -> x
      [] x.t = "null" -> Num(0)
      [] x.t = "string" ->
            IF x.v = <<>> THEN Num(0)
            ELSE LET ni == DigitRun(x.v, 1)
                     hasDot == ni + 1 <= Len(x.v) /\ x.v[ni + 1] = "."
                     nf == IF hasDot THEN DigitRun(x.v, ni + 2) ELSE 0
                     used == ni + (IF hasDot THEN 1 + nf ELSE 0)
                 IN  IF used = Len(x.v) THEN parseFloat(x.v) ELSE NaN
      [] OTHER -> NaN

MathMax(a, b) ==
    LET x == ToNumber(a)
        y == ToNumber(b)
    IN  IF x = NaN \/ y = NaN THEN NaN
        ELSE IF x.v >= y.v THEN x ELSE y

MathMin(a, b) ==
    LET x == ToNumber(a)
        y == ToNumber(b)
    IN  IF x = NaN \/ y = NaN THEN NaN
        ELSE IF x.v <= y.v THEN x ELSE y

\* Math.round(x * 100) / 100 on a fixed-point number: Math.round is
\* floor(x + 0.5).
RoundToHundredths(a) ==
    LET x == ToNumber(a)
    IN  IF x = NaN THEN NaN ELSE Num(10 * ((x.v + 5) \div 10))

\* ------------------------------------------------------------------ strings

UpperCase == <<"A", "B", "C", "D", "E", "F", "G", "H", "I", "J", "K", "L", "M",
               "N", "O", "P", "Q", "R", "S", "T", "U", "V", "W", "X", "Y", "Z">>

LowerCase == <<"a", "b", "c", "d", "e", "f", "g", "h", "i", "j", "k", "l", "m",
               "n", "o", "p", "q", "r", "s", "t", "u", "v", "w", "x", "y", "z">>

toUpperCaseChar(c) ==
    IF \E i \in 1..26 : LowerCase[i] = c
    THEN UpperCase[CHOOSE i \in 1..26 : LowerCase[i] = c]
    ELSE c

toLowerCaseChar(c) ==
    IF \E i \in 1..26 : UpperCase[i] = c
    THEN LowerCase[CHOOSE i \in 1..26 : UpperCase[i] = c]
    ELSE c

toLowerCase(s) == [i \in 1..Len(s) |-> toLowerCaseChar(s[i])]

\* s.includes(k)
includes(s, k) ==
    \E i \in 1..(Len(s) - Len(k) + 1) : SubSeq(s, i, i + Len(k) - 1) = k

\* s.split(sep) for a one-character separator.
RECURSIVE split(_, _)
split(s, sep) ==
    IF \A i \in 1..Len(s) : s[i] # sep THEN <<s>>
    ELSE LET i == CHOOSE k \in 1..Len(s) :
                      s[k] = sep /\ \A j \in 1..(k - 1) : s[j] # sep
         IN  <<SubSeq(s, 1, i - 1)>> \o split(SubSeq(s, i + 1, Len(s)), sep)

\* s.split(/[\s_-]+/): the separators are runs of blanks, '_' and '-'.
RECURSIVE splitRuns(_, _)
splitRuns(s, seps) ==
    IF \A i \in 1..Len(s) : s[i] \notin seps THEN <<s>>
    ELSE LET i == CHOOSE k \in 1..Len(s) :
                      s[k] \in seps /\ \A j \in 1..(k - 1) : s[j] \notin seps
             j == CHOOSE k \in i..Len(s) :
                      /\ \A m \in i..k : s[m] \in seps
                      /\ (k = Len(s) \/ s[k + 1] \notin seps)
         IN  <<SubSeq(s, 1, i - 1)>> \o splitRuns(SubSeq(s, j + 1, Len(s)), seps)

\* words.join(sep)
RECURSIVE join(_, _)
join(words, sep) ==
    IF words = <<>> THEN <<>>
    ELSE IF Len(words) = 1 THEN words[1]
    ELSE words[1] \o sep \o join(Tail(words), sep)

\* `${x}` inside a template string.
Text(x) ==
    CASE x.t = "string" -> x.v
      [] x.t = "undefined" -> <<"undefined">>
      [] x.t = "null" -> <<"null">>
      [] OTHER -> <<"[value]">>

\* ------------------------------------------------ outcomes of a provider call

\* A provider method either throws (its promise rejects) or returns a value;
\* `via` names the path inside the provider that produced the value and
\* `available` how many items the provider's answer held.
Throw == [threw |-> TRUE]

Return(value, via, available) ==
    [threw |-> FALSE, value |-> value, via |-> via, available |-> available]

\* The ways an HTTP exchange fails before a usable body is read: fetch rejects,
\* the status is not ok, or the body lacks the structure the code indexes.
TransportFailures ==
    {[kind |-> "network_error"], [kind |-> "http_error"], [kind |-> "malformed_body"]}

\* ------------------------------------------- api.ts: OpenAIService.detectFood

\* What a chat completion's message content holds, as far as the code reads it:
\*   json      what content.match(/\{[\s\S]*\}/) and JSON.parse make of it:
\*             Undef (no match), [t |-> "invalid"] (parse throws), or an object
\*   foodLine  the capture of /(?:food|dish|item):\s*([^\n]+)/, or Undef
\*   confText  the capture of /confidence:\s*([0-9.]+)/, or Undef
\*   words     the category words the lower-cased content includes
Content(json, foodLine, confText, words) ==
    [t |-> "string", v |-> <<"(content)">>,
     json |-> json, foodLine |-> foodLine, confText |-> confText, words |-> words]

InvalidJson == [t |-> "invalid"]

DetectionJsonSamples ==
    { Obj([name |-> Str(<<"M","a","r","g","h","e","r","i","t","a"," ","P","i","z","z","a">>), confidence |-> Num(950),
           category |-> Str(<<"I","t","a","l","i","a","n">>),
           ingredients |-> Arr(<<Str(<<"T","o","m","a","t","o">>), Str(<<"B","a","s","i","l">>)>>)]),
      Obj([name |-> Str(<<"B","e","e","f"," ","B","u","r","g","e","r">>), confidence |-> Num(1500),
           category |-> Str(<<"A","m","e","r","i","c","a","n">>)]),
      Obj([name |-> Str(<<"F","r","u","i","t"," ","B","o","w","l">>), confidence |-> Num(0 - 200),
           category |-> Str(<<"H","e","a","l","t","h","y">>), ingredients |-> Arr(<<>>)]),
      Obj([confidence |-> Str(<<"h","i","g","h">>)]),
      Obj([name |-> Str(<<"S","u","s","h","i"," ","R","o","l","l">>), confidence |-> Num(0)]),
      Obj([name |-> Null, category |-> Null, ingredients |-> Null]) }

TextSamples ==
    { [foodLine |-> Str(<<"p","i","z","z","a"," ","m","a","r","g","h","e","r","i","t","a">>), confText |-> Str(<<"0",".","9">>),
       words |-> {<<"i","t","a","l","i","a","n">>}],
      [foodLine |-> Undef, confText |-> Str(<<"9","5">>), words |-> {}],
      [foodLine |-> Str(<<"g","r","i","l","l","e","d"," ","f","i","s","h">>), confText |-> Str(<<".">>),
       words |-> {<<"p","r","o","t","e","i","n">>, <<"h","e","a","l","t","h","y">>}],
      [foodLine |-> Undef, confText |-> Undef, words |-> {}] }

OpenAIContents ==
    { Content(j, Undef, Undef, {}) : j \in DetectionJsonSamples }
    \cup { Content(j, x.foodLine, x.confText, x.words) :
             j \in {Undef, InvalidJson}, x \in TextSamples }

OpenAIResponses ==
    TransportFailures
    \cup {[kind |-> "ok", content |-> Undef], [kind |-> "ok", content |-> Str(<<>>)]}
    \cup {[kind |-> "ok", content |-> c] : c \in OpenAIContents}

\* cat.charAt(0).toUpperCase() + cat.slice(1)
capitalize(word) ==
    IF word = <<>> THEN <<>>
    ELSE <<toUpperCaseChar(word[1])>> \o SubSeq(word, 2, Len(word))

TextCategories ==
    <<<<"h","e","a","l","t","h","y">>, <<"p","r","o","t","e","i","n">>, <<"i","t","a","l","i","a","n">>, <<"a","s","i","a","n">>, <<"d","e","s","s","e","r","t">>, <<"a","m","e","r","i","c","a","n">>>>

OpenAIService_parseTextResponse(content) ==
    LET name == IF content.foodLine # Undef THEN content.foodLine
                ELSE Str(<<"D","e","t","e","c","t","e","d"," ","F","o","o","d">>)
        confidence == IF content.confText # Undef
                      THEN parseFloat(content.confText.v)
                      ELSE Num(850)
        hits == {i \in 1..Len(TextCategories) : TextCategories[i] \in content.words}
        category == IF hits = {} THEN Str(<<"G","e","n","e","r","a","l">>)
                    ELSE LET first == CHOOSE i \in hits : \A j \in hits : i <= j
                         IN  Str(capitalize(TextCategories[first]))
    IN  [name |-> name, confidence |-> confidence, category |-> category,
         ingredients |-> Arr(<<>>)]

\* The JSON branch of detectFood: defaults for missing fields, the confidence
\* clamped into [0, 1].
OpenAIService_detectFoodJson(json) ==
    [name |-> OrElse(Field(json, "name"), Str(<<"U","n","k","n","o","w","n"," ","F","o","o","d">>)),
     confidence |-> MathMin(MathMax(OrElse(Field(json, "confidence"), Num(800)),
                                    Num(0)), Num(ConfOne)),
     category |-> OrElse(Field(json, "category"), Str(<<"G","e","n","e","r","a","l">>)),
     ingredients |-> OrElse(Field(json, "ingredients"), Arr(<<>>))]

OpenAIService_detectFood(resp) ==
    IF resp.kind # "ok" THEN Throw
    ELSE IF Falsy(resp.content) THEN Throw
    ELSE IF resp.content.json \in {Undef, InvalidJson}
         THEN Return(OpenAIService_parseTextResponse(resp.content), "openai_text", 1)
         ELSE Return(OpenAIService_detectFoodJson(resp.content.json), "openai_json", 1)

\* ------------------------------------------ api.ts: ClarifaiService.detectFood

\* name.split('-').map(word => word.charAt(0).toUpperCase() + word.slice(1)).join(' ')
ClarifaiService_formatFoodName(name) ==
    LET words == split(name, "-")
    IN  join([i \in 1..Len(words) |-> capitalize(words[i])], <<" ">>)

ClarifaiCategories ==
    << [category |-> <<"H","e","a","l","t","h","y">>,
        keywords |-> <<<<"s","a","l","a","d">>, <<"v","e","g","e","t","a","b","l","e">>, <<"f","r","u","i","t">>, <<"q","u","i","n","o","a">>, <<"k","a","l","e">>>>],
       [category |-> <<"P","r","o","t","e","i","n">>,
        keywords |-> <<<<"c","h","i","c","k","e","n">>, <<"b","e","e","f">>, <<"f","i","s","h">>, <<"e","g","g">>, <<"t","o","f","u">>>>],
       [category |-> <<"I","t","a","l","i","a","n">>,
        keywords |-> <<<<"p","a","s","t","a">>, <<"p","i","z","z","a">>, <<"l","a","s","a","g","n","a">>, <<"r","i","s","o","t","t","o">>>>],
       [category |-> <<"A","s","i","a","n">>,
        keywords |-> <<<<"s","u","s","h","i">>, <<"r","a","m","e","n">>, <<"s","t","i","r","-","f","r","y">>, <<"d","i","m","-","s","u","m">>>>],
       [category |-> <<"D","e","s","s","e","r","t">>,
        keywords |-> <<<<"c","a","k","e">>, <<"c","o","o","k","i","e">>, <<"i","c","e","-","c","r","e","a","m">>, <<"c","h","o","c","o","l","a","t","e">>>>],
       [category |-> <<"A","m","e","r","i","c","a","n">>,
        keywords |-> <<<<"b","u","r","g","e","r">>, <<"f","r","i","e","s">>, <<"s","a","n","d","w","i","c","h">>, <<"b","b","q">>>>] >>

\* A variant of the lookup in which the last matching category wins.
FirstCategory_lastMatch(table, name, fallback) ==
    LET lower == toLowerCase(name)
        hits == {i \in 1..Len(table) :
                    \E k \in 1..Len(table[i].keywords) :
                        includes(lower, table[i].keywords[k])}
    IN  IF hits = {} THEN fallback
        ELSE table[CHOOSE i \in hits : \A j \in hits : i >= j].category

\* The first category of `table`, in its order, one of whose keywords the
\* lower-cased name includes; `fallback` when there is none.
FirstCategory(table, name, fallback) ==
    LET lower == toLowerCase(name)
        hits == {i \in 1..Len(table) :
                    \E k \in 1..Len(table[i].keywords) :
                        includes(lower, table[i].keywords[k])}
    IN  IF hits = {} THEN fallback
        ELSE table[CHOOSE i \in hits : \A j \in hits : i <= j].category

ClarifaiService_categorizeFood(name) ==
    FirstCategory(ClarifaiCategories, name, <<"G","e","n","e","r","a","l">>)

\* concepts.map(concept => this.formatFoodName(concept.name)) over the first five
ClarifaiService_extractIngredients(concepts) ==
    LET top == SubSeq(concepts, 1, IF Len(concepts) < 5 THEN Len(concepts) ELSE 5)
    IN  Arr([i \in 1..Len(top) |-> Str(ClarifaiService_formatFoodName(top[i].name.v))])

ConceptSamples ==
    { [name |-> Str(<<"i","c","e","-","c","r","e","a","m">>), value |-> Num(987)],
      [name |-> Str(<<"c","h","i","c","k","e","n","-","s","a","l","a","d">>), value |-> Num(1200)],
      [name |-> Str(<<"p","i","z","z","a">>), value |-> Undef],
      [name |-> Undef, value |-> Num(500)] }

RECURSIVE SeqsUpTo(_, _)
SeqsUpTo(S, n) ==
    IF n = 0 THEN {<<>>}
    ELSE LET shorter == SeqsUpTo(S, n - 1)
         IN  shorter \cup {Append(q, x) : q \in shorter, x \in S}

ClarifaiResponses ==
    TransportFailures
    \cup {[kind |-> "ok", concepts |-> c] : c \in SeqsUpTo(ConceptSamples, MaxConcepts)}

\* A concept without a name makes formatFoodName read a property of undefined.
ClarifaiService_detectFood(resp) ==
    IF resp.kind # "ok" THEN Throw
    ELSE IF Len(resp.concepts) = 0 THEN Throw
    ELSE LET topConcept == resp.concepts[1]
             top == SubSeq(resp.concepts, 1,
                           IF Len(resp.concepts) < 5 THEN Len(resp.concepts) ELSE 5)
         IN  IF \E i \in 1..Len(top) : top[i].name.t # "string" THEN Throw
             ELSE Return(
                    [name |-> Str(ClarifaiService_formatFoodName(topConcept.name.v)),
                     confidence |-> RoundToHundredths(topConcept.value),
                     category |-> Str(ClarifaiService_categorizeFood(topConcept.name.v)),
                     ingredients |-> ClarifaiService_extractIngredients(resp.concepts)],
                    "clarifai", Len(resp.concepts))

\* ------------------------------------------------------- api.ts: FoodApiService

\* An image is a data URL or a file reference; the providers receive it whole.
Images == {<<"d","a","t","a",":","i","m","a","g","e","/","p","n","g",";","b","a","s","e","6","4",",","A","A","A","A">>, <<"c","h","i","c","k","e","n",".","j","p","g">>}

\* The constructor creates a provider's service iff its key is set.
openaiService == apiKeys.openai

clarifaiService == apiKeys.clarifai

spoonacularService == apiKeys.spoonacular

FoodApiService_isConfigured ==
    [openai |-> openaiService, clarifai |-> clarifaiService,
     spoonacular |-> spoonacularService]

Request(provider, what, payload) ==
    [provider |-> provider, what |-> what, payload |-> payload]

NoResult == [kind |-> "none"]

\* The answer `from` a provider that settled an await.
Answer(from, answer) == [from |-> from, answer |-> answer]

NoResponse == [from |-> "none"]

Thrown == [kind |-> "throw"]

Returned(r) ==
    [kind |-> "return", value |-> r.value, source |-> r.via, available |-> r.available]

Idle == pc \in {"idle", "done"}

\* The provider behind a result's source.
SourceProvider(source) ==
    IF source \in {"openai", "openai_json", "openai_text", "openai_fallback"}
    THEN "openai"
    ELSE source

\* The part of analyzeFood from the Clarifai check on: issue the request, or
\* throw when Clarifai is not configured either.
analyzeFood_fallbackToClarifai(reqs, imageBase64) ==
    IF clarifaiService
    THEN /\ pc' = "analyzeFood_clarifai"
         /\ requests' = Append(reqs, Request("clarifai", "detectFood", imageBase64))
         /\ result' = NoResult
    ELSE /\ pc' = "done"
         /\ requests' = reqs
         /\ result' = Thrown

\* Variant for comparison: the OpenAI request is issued without looking at the key.
analyzeFood_call_unconditional(imageBase64) ==
    /\ Idle
    /\ response' = NoResponse
    /\ op' = "analyzeFood"
    /\ arg' = [image |-> imageBase64]
    /\ failed' = {}
    /\ pc' = "analyzeFood_openai"
    /\ requests' = <<Request("openai", "detectFood", imageBase64)>>
    /\ result' = NoResult
    /\ UNCHANGED apiKeys

\* analyzeFood up to its first await.
analyzeFood_call(imageBase64) ==
    /\ Idle
    /\ response' = NoResponse
    /\ op' = "analyzeFood"
    /\ arg' = [image |-> imageBase64]
    /\ failed' = {}
    /\ IF openaiService
       THEN /\ pc' = "analyzeFood_openai"
            /\ requests' = <<Request("openai", "detectFood", imageBase64)>>
            /\ result' = NoResult
       ELSE analyzeFood_fallbackToClarifai(<<>>, imageBase64)
    /\ UNCHANGED apiKeys

\* Variant for comparison: no try/catch around the OpenAI call, so its error leaves analyzeFood.
analyzeFood_openaiSettles_rethrows(resp) ==
    /\ pc = "analyzeFood_openai"
    /\ response' = Answer("openai", resp)
    /\ LET r == OpenAIService_detectFood(resp)
       IN  /\ failed' = IF r.threw THEN failed \cup {"openai"} ELSE failed
           /\ result' = IF r.threw THEN Thrown ELSE Returned(r)
    /\ pc' = "done"
    /\ UNCHANGED <<apiKeys, op, arg, requests>>

\* Variant for comparison: a failed OpenAI call makes the service drop its OpenAI provider.
analyzeFood_openaiSettles_dropsProvider(resp) ==
    /\ pc = "analyzeFood_openai"
    /\ response' = Answer("openai", resp)
    /\ LET r == OpenAIService_detectFood(resp)
       IN  IF r.threw
           THEN /\ failed' = failed \cup {"openai"}
                /\ apiKeys' = [apiKeys EXCEPT !.openai = FALSE]
                /\ analyzeFood_fallbackToClarifai(requests, arg.image)
           ELSE /\ failed' = failed
                /\ apiKeys' = apiKeys
                /\ pc' = "done"
                /\ requests' = requests
                /\ result' = Returned(r)
    /\ UNCHANGED <<op, arg>>

\* OpenAI's answer arrives: return it, or log the error and go on to Clarifai.
analyzeFood_openaiSettles(resp) ==
    /\ pc = "analyzeFood_openai"
    /\ response' = Answer("openai", resp)
    /\ LET r == OpenAIService_detectFood(resp)
       IN  IF r.threw
           THEN /\ failed' = failed \cup {"openai"}
                /\ analyzeFood_fallbackToClarifai(requests, arg.image)
           ELSE /\ failed' = failed
                /\ pc' = "done"
                /\ requests' = requests
                /\ result' = Returned(r)
    /\ UNCHANGED <<apiKeys, op, arg>>

\* Variant for comparison: a failed Clarifai request is issued once more.
analyzeFood_clarifaiSettles_retries(resp) ==
    /\ pc = "analyzeFood_clarifai"
    /\ response' = Answer("clarifai", resp)
    /\ LET r == ClarifaiService_detectFood(resp)
       IN  IF r.threw /\ "clarifai" \notin failed
           THEN /\ failed' = failed \cup {"clarifai"}
                /\ requests' = Append(requests, Request("clarifai", "detectFood", arg.image))
                /\ result' = NoResult
                /\ pc' = "analyzeFood_clarifai"
           ELSE /\ failed' = IF r.threw THEN failed \cup {"clarifai"} ELSE failed
                /\ requests' = requests
                /\ result' = IF r.threw THEN Thrown ELSE Returned(r)
                /\ pc' = "done"
    /\ UNCHANGED <<apiKeys, op, arg>>

\* Clarifai's answer arrives: return it, or log the error and throw.
analyzeFood_clarifaiSettles(resp) ==
    /\ pc = "analyzeFood_clarifai"
    /\ response' = Answer("clarifai", resp)
    /\ LET r == ClarifaiService_detectFood(resp)
       IN  IF r.threw
           THEN /\ failed' = failed \cup {"clarifai"}
                /\ result' = Thrown
           ELSE /\ failed' = failed
                /\ result' = Returned(r)
    /\ pc' = "done"
    /\ UNCHANGED <<apiKeys, op, arg, requests>>

\* -------------------------------------- api.ts: OpenAIService.generateRecipes

\* Detection results a caller hands to getRecipes / generateRecipes.
DetectedFoodSamples ==
    { [name |-> Str(<<"C","h","i","c","k","e","n"," ","T","e","r","i","y","a","k","i"," ","B","o","w","l">>), confidence |-> Num(900),
       category |-> Str(<<"P","r","o","t","e","i","n">>),
       ingredients |-> Arr(<<Str(<<"C","h","i","c","k","e","n">>), Str(<<"R","i","c","e">>)>>)],
      [name |-> Str(<<"P","i","z","z","a"," ","M","a","r","g","h","e","r","i","t","a">>), confidence |-> Num(870),
       category |-> Str(<<"I","t","a","l","i","a","n">>), ingredients |-> Undef],
      [name |-> Str(<<"S","u","s","h","i"," ","R","o","l","l">>), confidence |-> Num(940),
       category |-> Str(<<"J","a","p","a","n","e","s","e">>), ingredients |-> Arr(<<>>)] }

\* count = 4, the default of generateRecipes, which getRecipes relies on.
DefaultCount == 4

DefaultImage == Str(<<"https://images.unsplash.com/photo-1546069901-ba9599a7e63c">>)

imageMap ==
    << [category |-> <<"H","e","a","l","t","h","y">>,
        url |-> Str(<<"https://images.unsplash.com/photo-1512621776951-a57141f2eefd">>)],
       [category |-> <<"P","r","o","t","e","i","n">>,
        url |-> Str(<<"https://images.unsplash.com/photo-1532550907401-a500c9a57435">>)],
       [category |-> <<"I","t","a","l","i","a","n">>,
        url |-> Str(<<"https://images.unsplash.com/photo-1621996346565-e3dbc353d2e5">>)],
       [category |-> <<"A","s","i","a","n">>,
        url |-> Str(<<"https://images.unsplash.com/photo-1512058564366-18510be2db19">>)],
       [category |-> <<"D","e","s","s","e","r","t">>,
        url |-> Str(<<"https://images.unsplash.com/photo-1551024506-0bccd828d307">>)],
       [category |-> <<"A","m","e","r","i","c","a","n">>,
        url |-> Str(<<"https://images.unsplash.com/photo-1568901346375-23c9450c58cd">>)] >>

\* imageMap[category] || default image
OpenAIService_getRecipeImage(title, category) ==
    IF category.t = "string" /\ \E i \in 1..Len(imageMap) : imageMap[i].category = category.v
    THEN imageMap[CHOOSE i \in 1..Len(imageMap) : imageMap[i].category = category.v].url
    ELSE DefaultImage

DefaultNutrition(carbs, fat) ==
    Obj([calories |-> Num(300), protein |-> Str(<<"20g">>),
         carbs |-> Str(<<carbs>>), fat |-> Str(<<fat>>)])

PlaceholderIngredients ==
    Arr(<<Str(<<"Main ingredient">>), Str(<<"Seasoning">>), Str(<<"Oil">>)>>)

PlaceholderInstructions ==
    Arr(<<Str(<<"Prepare ingredients">>), Str(<<"Cook according to preference">>),
          Str(<<"Serve hot">>)>>)

OpenAIService_generateFallbackRecipes(detectedFood, count) ==
    [i \in 1..count |->
        [id |-> Str(<<"fallback_", ToString(i)>>),
         title |-> Str(Text(detectedFood.name) \o <<" Recipe ", ToString(i)>>),
         description |-> Str(<<"A delicious recipe featuring ">> \o Text(detectedFood.name)),
         image |-> OpenAIService_getRecipeImage(Str(<<>>), detectedFood.category),
         cookTime |-> Str(<<"30 mins">>),
         difficulty |-> Str(<<"Medium">>),
         ingredients |-> OrElse(detectedFood.ingredients, PlaceholderIngredients),
         instructions |-> PlaceholderInstructions,
         nutrition |-> DefaultNutrition("25g", "15g")]]

\* One element of the recipes.map(...) of generateRecipes.
OpenAIService_mapRecipe(recipe, index, detectedFood) ==
    [id |-> OrElse(Field(recipe, "id"), Str(<<"openai_", ToString(index)>>)),
     title |-> OrElse(Field(recipe, "title"), Str(<<"Generated Recipe">>)),
     description |-> OrElse(Field(recipe, "description"),
                            Str(<<"Delicious recipe generated by AI">>)),
     image |-> OpenAIService_getRecipeImage(Field(recipe, "title"), detectedFood.category),
     cookTime |-> OrElse(Field(recipe, "cookTime"), Str(<<"30 mins">>)),
     difficulty |-> OrElse(Field(recipe, "difficulty"), Str(<<"Medium">>)),
     ingredients |-> OrElse(Field(recipe, "ingredients"), Arr(<<>>)),
     instructions |-> OrElse(Field(recipe, "instructions"), Arr(<<>>)),
     nutrition |-> OrElse(Field(recipe, "nutrition"), DefaultNutrition("25g", "15g"))]

\* The i-th well-formed recipe object of a provider's JSON array.
GoodRecipeJson(i) ==
    Obj([id |-> Str(<<"recipe_", ToString(i)>>),
         title |-> Str(<<"Recipe Name ", ToString(i)>>),
         description |-> Str(<<"Brief appealing description">>),
         image |-> Str(<<"https://images.unsplash.com/photo-relevant-food-image">>),
         cookTime |-> Str(<<"25 mins">>),
         difficulty |-> Str(<<"Easy">>),
         ingredients |-> Arr(<<Str(<<"ingredient 1">>), Str(<<"ingredient 2">>)>>),
         instructions |-> Arr(<<Str(<<"step 1">>), Str(<<"step 2">>)>>),
         nutrition |-> Obj([calories |-> Num(350), protein |-> Str(<<"25g">>),
                            carbs |-> Str(<<"30g">>), fat |-> Str(<<"12g">>)])])

\* Elements a provider's array may hold instead: an object with no fields, an
\* object whose difficulty is outside Easy|Medium|Hard, and null.
OddRecipeJson ==
    { Obj(<<>>),
      Obj([id |-> Str(<<"recipe_x">>), title |-> Str(<<"Recipe Name X">>),
           difficulty |-> Str(<<"Expert">>)]),
      Null }

\* Arrays of 0..n recipes, well-formed but for at most one element.
RecipeJsonArrays(n) ==
    LET good(len) == [i \in 1..len |-> GoodRecipeJson(i)]
    IN  {good(len) : len \in 0..n}
        \cup UNION {{[good(len) EXCEPT ![p] = odd] :
                        p \in 1..len, odd \in OddRecipeJson} : len \in 1..n}

\* content.match(/\[[\s\S]*\]/) and JSON.parse: Undef (no match), InvalidJson
\* (parse throws) or the parsed array.
RecipeContent(json) == [t |-> "string", v |-> <<"(content)">>, json |-> json]

OpenAIRecipeResponses ==
    TransportFailures
    \cup {[kind |-> "ok", content |-> Undef]}
    \cup {[kind |-> "ok", content |-> RecipeContent(j)] : j \in {Undef, InvalidJson}}
    \cup {[kind |-> "ok", content |-> RecipeContent(Arr(a))] :
             a \in RecipeJsonArrays(MaxRecipes)}

\* Variant for comparison: a missing or unparsable JSON array is thrown to the caller instead
\* of being answered with the fallback recipes.
OpenAIService_generateRecipes_throwsOnParse(resp, detectedFood, count) ==
    IF resp.kind # "ok" THEN Throw
    ELSE IF Falsy(resp.content) THEN Throw
    ELSE LET json == resp.content.json
         IN  IF json \in {Undef, InvalidJson} THEN Throw
             ELSE IF \E i \in 1..Len(json.v) : Nullish(json.v[i]) THEN Throw
             ELSE Return([i \in 1..Len(json.v) |->
                            OpenAIService_mapRecipe(json.v[i], i, detectedFood)],
                         "openai", Len(json.v))

OpenAIService_generateRecipes(resp, detectedFood, count) ==
    IF resp.kind # "ok" THEN Throw
    ELSE IF Falsy(resp.content) THEN Throw
    ELSE LET json == resp.content.json
             fallback == Return(OpenAIService_generateFallbackRecipes(detectedFood, count),
                                "openai_fallback", count)
         IN  IF json \in {Undef, InvalidJson} THEN fallback
             ELSE IF \E i \in 1..Len(json.v) : Nullish(json.v[i]) THEN fallback
             ELSE Return([i \in 1..Len(json.v) |->
                            OpenAIService_mapRecipe(json.v[i], i, detectedFood)],
                         "openai", Len(json.v))

\* ------------------------------------------------- api.ts: SpoonacularService

\* number = 6, the default of searchRecipesByIngredients, which getRecipes
\* relies on.
DefaultNumber == 6

\* x <= n as JavaScript compares: false when x does not convert to a number.
LessEq(x, n) == LET y == ToNumber(x) IN y # NaN /\ y.v <= n

SpoonacularService_determineDifficulty(cookTime, ingredientCount) ==
    IF LessEq(cookTime, 15) /\ LessEq(ingredientCount, 5) THEN Str(<<"Easy">>)
    ELSE IF LessEq(cookTime, 45) /\ LessEq(ingredientCount, 10) THEN Str(<<"Medium">>)
    ELSE Str(<<"Hard">>)

\* nutrients.find(n => n.name === name)?.amount || 0
NutrientAmount(nutrients, name) ==
    LET hits == {i \in 1..Len(nutrients) : Field(nutrients[i], "name") = Str(<<name>>)}
    IN  IF hits = {} THEN Num(0)
        ELSE OrElse(Field(nutrients[CHOOSE i \in hits : \A j \in hits : i <= j], "amount"),
                    Num(0))

\* `${amount}g`
Grams(amount) ==
    Str(<<(IF amount.t = "number" THEN ToString(amount.v) ELSE "[value]"), "g">>)

SpoonacularService_parseNutrition(nutrition) ==
    IF Falsy(Field(nutrition, "nutrients")) THEN Undef
    ELSE LET nutrients == Field(nutrition, "nutrients").v
         IN  Obj([calories |-> NutrientAmount(nutrients, "Calories"),
                  protein |-> Grams(NutrientAmount(nutrients, "Protein")),
                  carbs |-> Grams(NutrientAmount(nutrients, "Carbohydrates")),
                  fat |-> Grams(NutrientAmount(nutrients, "Fat"))])

\* summary.replace(/<[^>]*>/g, ''): drop every '<' ... '>' span.
RECURSIVE stripTags(_)
stripTags(s) ==
    LET opens == {i \in 1..Len(s) : s[i] = "<" /\ \E j \in (i + 1)..Len(s) : s[j] = ">"}
    IN  IF opens = {} THEN s
        ELSE LET i == CHOOSE k \in opens : \A m \in opens : k <= m
                 j == CHOOSE k \in (i + 1)..Len(s) :
                          s[k] = ">" /\ \A m \in (i + 1)..(k - 1) : s[m] # ">"
             IN  SubSeq(s, 1, i - 1) \o stripTags(SubSeq(s, j + 1, Len(s)))

\* recipe.summary?.replace(...).slice(0, 150) + '...' || 'Delicious recipe'
SpoonacularService_description(summary) ==
    IF Nullish(summary) THEN Str(<<"undefined", "...">>)
    ELSE LET text == stripTags(summary.v)
         IN  Str(SubSeq(text, 1, IF Len(text) < 150 THEN Len(text) ELSE 150) \o <<"...">>)

\* recipe.extendedIngredients?.length
LengthOf(x) == IF x.t = "array" THEN Num(Len(x.v)) ELSE Undef

\* recipe.id.toString()
toString(x) == IF x.t = "number" THEN <<ToString(x.v)>> ELSE Text(x)

\* The object getRecipeDetails builds from the provider's recipe.
SpoonacularService_toApiRecipe(recipe) ==
    LET ext == Field(recipe, "extendedIngredients")
        steps == Field(recipe, "steps")
    IN  [id |-> Str(toString(Field(recipe, "id"))),
         title |-> Field(recipe, "title"),
         description |-> SpoonacularService_description(Field(recipe, "summary")),
         image |-> OrElse(Field(recipe, "image"), DefaultImage),
         cookTime |-> Str(<<ToString(OrElse(Field(recipe, "readyInMinutes"), Num(30)).v),
                            " mins">>),
         difficulty |-> SpoonacularService_determineDifficulty(
                            Field(recipe, "readyInMinutes"), LengthOf(ext)),
         ingredients |-> IF ext.t = "array"
                         THEN Arr([i \in 1..Len(ext.v) |-> Field(ext.v[i], "original")])
                         ELSE Arr(<<>>),
         instructions |-> IF steps.t = "array"
                          THEN Arr([i \in 1..Len(steps.v) |-> Field(steps.v[i], "step")])
                          ELSE Arr(<<>>),
         nutrition |-> SpoonacularService_parseNutrition(Field(recipe, "nutrition")),
         sourceUrl |-> Field(recipe, "sourceUrl")]

\* getRecipeDetails: a failed exchange, or a recipe without an id (toString of
\* undefined), throws.
SpoonacularService_getRecipeDetails(resp) ==
    IF resp.kind # "ok" THEN Throw
    ELSE IF Nullish(Field(resp.recipe, "id")) THEN Throw
    ELSE Return(SpoonacularService_toApiRecipe(resp.recipe), "spoonacular", 1)

\* What /{id}/information answers for candidate id: the full record, a sparse
\* one (only id and title), one without a title, one without an id, an error.
DetailResponses(id) ==
    { [kind |-> "http_error"],
      [kind |-> "ok", recipe |->
          Obj([id |-> Num(id), title |-> Str(<<"Spoonacular dish ", ToString(id)>>),
               summary |-> Str(<<"A"," ","<","b",">","q","u","i","c","k","<","/","b",">"," ","d","i","s","h">>),
               image |-> Str(<<"https://spoonacular.com/recipeImages/dish.jpg">>),
               readyInMinutes |-> Num(10 * id),
               extendedIngredients |-> Arr(<<Obj([original |-> Str(<<"2 eggs">>)]),
                                             Obj([original |-> Str(<<"1 cup rice">>)])>>),
               steps |-> Arr(<<Obj([step |-> Str(<<"Cook">>)])>>),
               nutrition |-> Obj([nutrients |->
                    Arr(<<Obj([name |-> Str(<<"Calories">>), amount |-> Num(420)]),
                          Obj([name |-> Str(<<"Fat">>), amount |-> Num(12)])>>)]),
               sourceUrl |-> Str(<<"https://example.com/dish">>)])],
      [kind |-> "ok", recipe |->
          Obj([id |-> Num(id), title |-> Str(<<"Sparse dish">>)])],
      [kind |-> "ok", recipe |-> Obj([id |-> Num(id)])],
      [kind |-> "ok", recipe |-> Obj([title |-> Str(<<"No id">>)])] }

\* /findByIngredients answers with at most `number` candidates; candidate i
\* has id i.
SearchResponses ==
    TransportFailures
    \cup {[kind |-> "ok", data |-> [i \in 1..n |-> Obj([id |-> Num(i)])]] :
             n \in 0..MaxCandidates}

\* The answers to the detail requests of candidates 1..n, one per candidate.
RECURSIVE DetailResponseLists(_)
DetailResponseLists(n) ==
    IF n = 0 THEN {<<>>}
    ELSE {Append(q, r) : q \in DetailResponseLists(n - 1), r \in DetailResponses(n)}

\* Variant for comparison: the candidates whose detail request failed are left out.
SpoonacularService_collectDetails_partial(resps) ==
    LET each == [i \in 1..Len(resps) |-> SpoonacularService_getRecipeDetails(resps[i])]
        kept == SelectSeq(each, LAMBDA r : ~r.threw)
    IN  Return([i \in 1..Len(kept) |-> kept[i].value], "spoonacular", Len(each))

\* Promise.all over the detail requests: rejects when any of them rejects.
SpoonacularService_collectDetails(resps) ==
    LET each == [i \in 1..Len(resps) |-> SpoonacularService_getRecipeDetails(resps[i])]
    IN  IF \E i \in 1..Len(each) : each[i].threw THEN Throw
        ELSE Return([i \in 1..Len(each) |-> each[i].value], "spoonacular", Len(each))

\* ------------------------------------------ api.ts: FoodApiService.getMockRecipes

FoodApiService_getMockRecipes(detectedFood) ==
    << [id |-> Str(<<"mock1">>),
        title |-> Str(Text(detectedFood.name) \o <<" Recipe">>),
        description |-> Str(<<"A delicious recipe featuring ">> \o Text(detectedFood.name)),
        image |-> DefaultImage,
        cookTime |-> Str(<<"25 mins">>),
        difficulty |-> Str(<<"Medium">>),
        ingredients |-> OrElse(detectedFood.ingredients, PlaceholderIngredients),
        instructions |-> PlaceholderInstructions,
        nutrition |-> DefaultNutrition("30g", "10g")] >>

\* ------------------------------------------ api.ts: FoodApiService.getRecipes

\* Variant for comparison: getRecipes ends like analyzeFood, throwing when Spoonacular is not
\* configured instead of returning the mock recipes.
getRecipes_fallbackToSpoonacular_throws(reqs, detectedFood) ==
    IF spoonacularService
    THEN LET ingredients == OrElse(detectedFood.ingredients, Arr(<<detectedFood.name>>))
         IN  /\ pc' = "getRecipes_search"
             /\ requests' = Append(reqs, Request("spoonacular", "findByIngredients",
                                [ingredients |-> ingredients, number |-> DefaultNumber]))
             /\ result' = NoResult
    ELSE /\ pc' = "done"
         /\ requests' = reqs
         /\ result' = Thrown

\* The part of getRecipes from the Spoonacular check on: issue the search, or
\* return the mock recipes when Spoonacular is not configured.
getRecipes_fallbackToSpoonacular(reqs, detectedFood) ==
    IF spoonacularService
    THEN LET ingredients == OrElse(detectedFood.ingredients, Arr(<<detectedFood.name>>))
         IN  /\ pc' = "getRecipes_search"
             /\ requests' = Append(reqs, Request("spoonacular", "findByIngredients",
                                [ingredients |-> ingredients, number |-> DefaultNumber]))
             /\ result' = NoResult
    ELSE /\ pc' = "done"
         /\ requests' = reqs
         /\ result' = Returned(Return(FoodApiService_getMockRecipes(detectedFood), "mock", 1))

\* Variant for comparison: the recipe search is tried before the generative provider.
getRecipes_call_searchFirst(detectedFood) ==
    /\ Idle
    /\ response' = NoResponse
    /\ op' = "getRecipes"
    /\ arg' = [detectedFood |-> detectedFood, count |-> DefaultCount]
    /\ failed' = {}
    /\ IF spoonacularService \/ ~openaiService
       THEN getRecipes_fallbackToSpoonacular(<<>>, detectedFood)
       ELSE /\ pc' = "getRecipes_openai"
            /\ requests' = <<Request("openai", "generateRecipes",
                                [detectedFood |-> detectedFood, count |-> DefaultCount])>>
            /\ result' = NoResult
    /\ UNCHANGED apiKeys

\* getRecipes up to its first await.
getRecipes_call(detectedFood) ==
    /\ Idle
    /\ response' = NoResponse
    /\ op' = "getRecipes"
    /\ arg' = [detectedFood |-> detectedFood, count |-> DefaultCount]
    /\ failed' = {}
    /\ IF openaiService
       THEN /\ pc' = "getRecipes_openai"
            /\ requests' = <<Request("openai", "generateRecipes",
                                [detectedFood |-> detectedFood, count |-> DefaultCount])>>
            /\ result' = NoResult
       ELSE getRecipes_fallbackToSpoonacular(<<>>, detectedFood)
    /\ UNCHANGED apiKeys

\* OpenAI's answer arrives: return its recipes, or log and go on to Spoonacular.
getRecipes_openaiSettles(resp) ==
    /\ pc = "getRecipes_openai"
    /\ response' = Answer("openai", resp)
    /\ LET r == OpenAIService_generateRecipes(resp, arg.detectedFood, DefaultCount)
       IN  IF r.threw
           THEN /\ failed' = failed \cup {"openai"}
                /\ getRecipes_fallbackToSpoonacular(requests, arg.detectedFood)
           ELSE /\ failed' = failed
                /\ pc' = "done"
                /\ requests' = requests
                /\ result' = Returned(r)
    /\ UNCHANGED <<apiKeys, op, arg>>

\* The search answers: a failure falls back to the mock recipes; otherwise one
\* detail request per candidate is issued (none for an empty answer, which
\* Promise.all resolves to an empty list).
getRecipes_searchSettles(resp) ==
    /\ pc = "getRecipes_search"
    /\ response' = Answer("spoonacular", resp)
    /\ IF resp.kind # "ok"
       THEN /\ failed' = failed \cup {"spoonacular"}
            /\ pc' = "done"
            /\ requests' = requests
            /\ result' = Returned(Return(FoodApiService_getMockRecipes(arg.detectedFood),
                                         "mock", 1))
       ELSE /\ failed' = failed
            /\ requests' = requests \o
                   [i \in 1..Len(resp.data) |->
                       Request("spoonacular", "information", Field(resp.data[i], "id"))]
            /\ IF Len(resp.data) = 0
               THEN /\ pc' = "done"
                    /\ result' = Returned(Return(<<>>, "spoonacular", 0))
               ELSE /\ pc' = "getRecipes_details"
                    /\ result' = NoResult
    /\ UNCHANGED <<apiKeys, op, arg>>

\* The detail requests in flight.
PendingDetails ==
    Cardinality({i \in 1..Len(requests) : requests[i].what = "information"})

\* The detail requests settle: the recipes, or the mock recipes when any failed.
getRecipes_detailsSettle(resps) ==
    /\ pc = "getRecipes_details"
    /\ response' = Answer("spoonacular", resps)
    /\ LET r == SpoonacularService_collectDetails(resps)
       IN  IF r.threw
           THEN /\ failed' = failed \cup {"spoonacular"}
                /\ result' = Returned(Return(FoodApiService_getMockRecipes(arg.detectedFood),
                                             "mock", 1))
           ELSE /\ failed' = failed
                /\ result' = Returned(r)
    /\ pc' = "done"
    /\ UNCHANGED <<apiKeys, op, arg, requests>>

\* ------------------------------------- aiServices.ts: FoodDetectionService

\* The `openai` client exists iff VITE_OPENAI_API_KEY is set.
openai == apiKeys.openai

\* detectFoodWithOpenAI after its configuration check: the raw fields of the
\* parsed object; any failure, a missing or unparsable JSON included, throws.
FoodDetectionService_detectFoodWithOpenAI(resp) ==
    IF resp.kind # "ok" THEN Throw
    ELSE IF Falsy(resp.content) THEN Throw
    ELSE IF resp.content.json \in {Undef, InvalidJson} THEN Throw
    ELSE Return([name |-> Field(resp.content.json, "name"),
                 confidence |-> Field(resp.content.json, "confidence"),
                 category |-> Field(resp.content.json, "category")],
                "openai", 1)

Separators == {" ", "_", "-"}

\* name.split(/[\s_-]+/).map(word => word.charAt(0).toUpperCase()
\*     + word.slice(1).toLowerCase()).join(' ')
FoodDetectionService_formatFoodName(name) ==
    LET words == splitRuns(name, Separators)
        cap(word) == IF word = <<>> THEN <<>>
                     ELSE <<toUpperCaseChar(word[1])>>
                          \o toLowerCase(SubSeq(word, 2, Len(word)))
    IN  join([i \in 1..Len(words) |-> cap(words[i])], <<" ">>)

DetectionCategories ==
    << [category |-> <<"A","s","i","a","n">>,
        keywords |-> <<<<"s","u","s","h","i">>, <<"r","a","m","e","n">>, <<"s","t","i","r"," ","f","r","y">>, <<"r","i","c","e">>, <<"n","o","o","d","l","e">>>>],
       [category |-> <<"I","t","a","l","i","a","n">>,
        keywords |-> <<<<"p","a","s","t","a">>, <<"p","i","z","z","a">>, <<"l","a","s","a","g","n","a">>, <<"r","i","s","o","t","t","o">>>>],
       [category |-> <<"M","e","x","i","c","a","n">>,
        keywords |-> <<<<"t","a","c","o">>, <<"b","u","r","r","i","t","o">>, <<"q","u","e","s","a","d","i","l","l","a">>, <<"s","a","l","s","a">>>>],
       [category |-> <<"A","m","e","r","i","c","a","n">>,
        keywords |-> <<<<"b","u","r","g","e","r">>, <<"f","r","i","e","s">>, <<"s","a","n","d","w","i","c","h">>, <<"b","b","q">>>>],
       [category |-> <<"H","e","a","l","t","h","y">>,
        keywords |-> <<<<"s","a","l","a","d">>, <<"f","r","u","i","t">>, <<"v","e","g","e","t","a","b","l","e">>, <<"g","r","a","i","n">>>>],
       [category |-> <<"D","e","s","s","e","r","t">>,
        keywords |-> <<<<"c","a","k","e">>, <<"c","o","o","k","i","e">>, <<"i","c","e"," ","c","r","e","a","m">>, <<"c","h","o","c","o","l","a","t","e">>>>],
       [category |-> <<"B","r","e","a","k","f","a","s","t">>,
        keywords |-> <<<<"p","a","n","c","a","k","e">>, <<"w","a","f","f","l","e">>, <<"e","g","g">>, <<"c","e","r","e","a","l">>>>] >>

FoodDetectionService_categorizeFood(foodName) ==
    FirstCategory(DetectionCategories, foodName, <<"I","n","t","e","r","n","a","t","i","o","n","a","l">>)

\* score > 0.8 as JavaScript compares.
Greater(x, n) == LET y == ToNumber(x) IN y # NaN /\ y.v > n

\* Labels and predictions a vision provider answers with.
LabelSamples ==
    { [text |-> Str(<<"F","o","o","d">>), score |-> Num(990)],
      [text |-> Str(<<"i","c","e","_","c","r","e","a","m">>), score |-> Num(1200)],
      [text |-> Str(<<"T","a","b","l","e","w","a","r","e">>), score |-> Num(600)],
      [text |-> Undef, score |-> Num(900)] }

VisionResponses ==
    TransportFailures
    \cup {[kind |-> "ok", labels |-> l] : l \in SeqsUpTo(LabelSamples, MaxConcepts)}

\* detectFoodWithGoogle after its configuration check. A label without a
\* description makes the filter read a property of undefined.
FoodDetectionService_detectFoodWithGoogle(resp) ==
    IF resp.kind # "ok" THEN Throw
    ELSE IF \E i \in 1..Len(resp.labels) : resp.labels[i].text.t # "string" THEN Throw
    ELSE LET isFood(label) ==
                 \/ includes(toLowerCase(label.text.v), <<"f","o","o","d">>)
                 \/ includes(toLowerCase(label.text.v), <<"d","i","s","h">>)
                 \/ includes(toLowerCase(label.text.v), <<"c","u","i","s","i","n","e">>)
                 \/ Greater(label.score, 800)
             \* labels.filter(...): the positions kept; foodLabels[0] is the
             \* label at the least of them
             foodLabels == {i \in 1..Len(resp.labels) : isFood(resp.labels[i])}
         IN  IF foodLabels = {} THEN Throw
             ELSE LET topLabel ==
                          resp.labels[CHOOSE i \in foodLabels : \A j \in foodLabels : i <= j]
                  IN  Return(
                        [name |-> Str(FoodDetectionService_formatFoodName(topLabel.text.v)),
                         confidence |-> topLabel.score,
                         category |->
                             Str(FoodDetectionService_categorizeFood(topLabel.text.v))],
                        "google", Cardinality(foodLabels))

\* detectFoodWithHuggingFace after the image was fetched. A prediction
\* without a label makes formatFoodName read a property of undefined.
FoodDetectionService_detectFoodWithHuggingFace(resp) ==
    IF resp.kind # "ok" THEN Throw
    ELSE IF Len(resp.labels) = 0 THEN Throw
    ELSE LET topPrediction == resp.labels[1]
         IN  IF topPrediction.text.t # "string" THEN Throw
             ELSE Return(
                    [name |-> Str(FoodDetectionService_formatFoodName(topPrediction.text.v)),
                     confidence |-> topPrediction.score,
                     category |->
                         Str(FoodDetectionService_categorizeFood(topPrediction.text.v))],
                    "huggingface", Len(resp.labels))

mockFoods ==
    << [name |-> Str(<<"G","r","i","l","l","e","d"," ","C","h","i","c","k","e","n"," ","B","r","e","a","s","t">>), confidence |-> Num(880),
        category |-> Str(<<"P","r","o","t","e","i","n">>)],
       [name |-> Str(<<"C","a","e","s","a","r"," ","S","a","l","a","d">>), confidence |-> Num(920),
        category |-> Str(<<"H","e","a","l","t","h","y">>)],
       [name |-> Str(<<"S","p","a","g","h","e","t","t","i"," ","C","a","r","b","o","n","a","r","a">>), confidence |-> Num(870),
        category |-> Str(<<"I","t","a","l","i","a","n">>)],
       [name |-> Str(<<"S","u","s","h","i"," ","R","o","l","l">>), confidence |-> Num(940),
        category |-> Str(<<"A","s","i","a","n">>)],
       [name |-> Str(<<"C","h","o","c","o","l","a","t","e"," ","C","a","k","e">>), confidence |-> Num(890),
        category |-> Str(<<"D","e","s","s","e","r","t">>)] >>

\* mockFoods[Math.floor(Math.random() * mockFoods.length)]: any entry.
FoodDetectionService_mockDetection(imageUrl) ==
    {mockFoods[i] : i \in 1..Len(mockFoods)}

\* Variant for comparison: the Google method placed before the OpenAI one.
DetectionMethods_googleFirst == <<"google", "openai", "huggingface">>

\* The methods of detectFood, in the order of its array, with the key each
\* one checks before it issues a request.
DetectionMethods == <<"openai", "google", "huggingface">>

\* The loop of detectFood from method k on: a method whose key is missing
\* throws at once and the loop goes on; the first configured one issues its
\* request (Hugging Face first downloads the image); past the last method the
\* mock detection is returned.
detectFood_loopFrom(k, reqs, imageUrl) ==
    LET configured == {i \in k..Len(DetectionMethods) : apiKeys[DetectionMethods[i]]}
    IN  IF configured = {}
        THEN /\ pc' = "done"
             /\ requests' = reqs
             /\ \E food \in FoodDetectionService_mockDetection(imageUrl) :
                    result' = Returned(Return(food, "mock", Len(mockFoods)))
        ELSE LET i == CHOOSE m \in configured : \A n \in configured : m <= n
                 method == DetectionMethods[i]
             IN  /\ result' = NoResult
                 /\ IF method = "huggingface"
                    THEN /\ pc' = "detectFood_image"
                         /\ requests' = Append(reqs, Request("image", "fetch", imageUrl))
                    ELSE /\ pc' = "detectFood_" \o method
                         /\ requests' = Append(reqs, Request(method, "detectFood", imageUrl))

\* detectFood up to its first await.
detectFood_call(imageUrl) ==
    /\ Idle
    /\ response' = NoResponse
    /\ op' = "detectFood"
    /\ arg' = [image |-> imageUrl]
    /\ failed' = {}
    /\ detectFood_loopFrom(1, <<>>, imageUrl)
    /\ UNCHANGED apiKeys

\* A method's promise settles: return its value, or warn and try the next.
detectFood_settle(method, r) ==
    /\ IF r.threw
       THEN /\ failed' = failed \cup {method}
            /\ detectFood_loopFrom(
                   1 + (CHOOSE k \in 1..Len(DetectionMethods) : DetectionMethods[k] = method),
                   requests, arg.image)
       ELSE /\ failed' = failed
            /\ pc' = "done"
            /\ requests' = requests
            /\ result' = Returned(r)
    /\ UNCHANGED <<apiKeys, op, arg>>

detectFood_openaiSettles(resp) ==
    /\ pc = "detectFood_openai"
    /\ response' = Answer("openai", resp)
    /\ detectFood_settle("openai", FoodDetectionService_detectFoodWithOpenAI(resp))

detectFood_googleSettles(resp) ==
    /\ pc = "detectFood_google"
    /\ response' = Answer("google", resp)
    /\ detectFood_settle("google", FoodDetectionService_detectFoodWithGoogle(resp))

\* The image download of detectFoodWithHuggingFace settles: the request to
\* Hugging Face follows, or the method has failed.
detectFood_imageSettles(fetched) ==
    /\ pc = "detectFood_image"
    /\ response' = Answer("image", [kind |-> IF fetched THEN "ok" ELSE "network_error"])
    /\ IF fetched
       THEN /\ pc' = "detectFood_huggingface"
            /\ requests' = Append(requests, Request("huggingface", "detectFood", arg.image))
            /\ failed' = failed
            /\ result' = NoResult
            /\ UNCHANGED <<apiKeys, op, arg>>
       ELSE detectFood_settle("huggingface", Throw)

detectFood_huggingfaceSettles(resp) ==
    /\ pc = "detectFood_huggingface"
    /\ response' = Answer("huggingface", resp)
    /\ detectFood_settle("huggingface",
                         FoodDetectionService_detectFoodWithHuggingFace(resp))

\* ---------------------------------- aiServices.ts: RecipeGenerationService

RecipeGenerationService_mockRecipes(detectedFood) ==
    << [id |-> Str(<<"ai-recipe-1">>),
        title |-> Str(<<"Inspired ">> \o Text(detectedFood.name) \o <<" Bowl">>),
        description |-> Str(<<"A creative take on ">> \o Text(detectedFood.name)
                            \o <<" with fresh ingredients">>),
        image |-> DefaultImage,
        cookTime |-> Str(<<"25 mins">>),
        difficulty |-> Str(<<"Medium">>),
        ingredients |-> Arr(<<Str(<<"Fresh ingredients">>), Str(<<"Seasonal vegetables">>),
                              Str(<<"Quality proteins">>), Str(<<"Aromatic herbs">>)>>),
        instructions |-> Arr(<<Str(<<"Prepare ingredients">>), Str(<<"Cook with care">>),
                               Str(<<"Season to taste">>), Str(<<"Serve beautifully">>)>>),
        nutrition |-> Obj([calories |-> Num(350), protein |-> Str(<<"20g">>),
                           carbs |-> Str(<<"35g">>), fat |-> Str(<<"15g">>)])],
       [id |-> Str(<<"ai-recipe-2">>),
        title |-> Str(Text(detectedFood.category) \o <<" Fusion Dish">>),
        description |-> Str(<<"Fusion cuisine inspired by ">> \o Text(detectedFood.category)
                            \o <<" flavors">>),
        image |-> Str(<<"https://images.unsplash.com/photo-1555939594-58d7cb561ad1">>),
        cookTime |-> Str(<<"30 mins">>),
        difficulty |-> Str(<<"Easy">>),
        ingredients |-> Arr(<<Str(<<"Mixed proteins">>), Str(<<"Fresh herbs">>),
                              Str(<<"Seasonal produce">>), Str(<<"Quality oils">>)>>),
        instructions |-> Arr(<<Str(<<"Prepare mise en place">>), Str(<<"Cook with technique">>),
                               Str(<<"Balance flavors">>), Str(<<"Present well">>)>>),
        nutrition |-> Obj([calories |-> Num(280), protein |-> Str(<<"18g">>),
                           carbs |-> Str(<<"25g">>), fat |-> Str(<<"12g">>)])] >>

\* mockRecipes.slice(0, count)
RecipeGenerationService_getMockRecipes(detectedFood, count) ==
    LET mockRecipes == RecipeGenerationService_mockRecipes(detectedFood)
    IN  Return(SubSeq(mockRecipes, 1, IF count < Len(mockRecipes) THEN count
                                      ELSE Len(mockRecipes)),
               "mock", Len(mockRecipes))

\* The try block of generateRecipes: the parsed array as it is; the catch
\* block answers every failure with the mock recipes.
RecipeGenerationService_parseRecipes(resp, detectedFood, count) ==
    IF \/ resp.kind # "ok"
       \/ Falsy(resp.content)
       \/ resp.content.json \in {Undef, InvalidJson}
    THEN RecipeGenerationService_getMockRecipes(detectedFood, count)
    ELSE Return(resp.content.json.v, "openai", Len(resp.content.json.v))

\* generateRecipes up to its first await.
generateRecipes_call(detectedFood, count) ==
    /\ Idle
    /\ response' = NoResponse
    /\ op' = "generateRecipes"
    /\ arg' = [detectedFood |-> detectedFood, count |-> count]
    /\ failed' = {}
    /\ IF ~openai
       THEN /\ pc' = "done"
            /\ requests' = <<>>
            /\ result' = Returned(RecipeGenerationService_getMockRecipes(detectedFood, count))
       ELSE /\ pc' = "generateRecipes_openai"
            /\ requests' = <<Request("openai", "generateRecipes",
                                [detectedFood |-> detectedFood, count |-> count])>>
            /\ result' = NoResult
    /\ UNCHANGED apiKeys

generateRecipes_openaiSettles(resp) ==
    /\ pc = "generateRecipes_openai"
    /\ response' = Answer("openai", resp)
    /\ LET r == RecipeGenerationService_parseRecipes(resp, arg.detectedFood, arg.count)
       IN  /\ failed' = IF r.via = "mock" THEN failed \cup {"openai"} ELSE failed
           /\ result' = Returned(r)
    /\ pc' = "done"
    /\ UNCHANGED <<apiKeys, op, arg, requests>>


\* ------------------------------- aiServices.ts: NutritionalAnalysisService

\* Longest ingredient list a caller hands to analyzeIngredients.
MaxIngredients == 2

\* The ingredient lists of up to MaxIngredients entries.
IngredientLists ==
    {[i \in 1..n |-> Str(<<"ingredient ", ToString(i)>>)] : n \in 0..MaxIngredients}

\* estimateNutrition: the set of the estimates it can return, one per
\* outcome of its Math.random() calls. A draw is held in hundredths (0.00 to
\* 0.99); the five draws after the one for calories are all at the low end
\* or all at the high end.
NutritionalAnalysisService_estimateNutrition(ingredients) ==
    LET baseCalories == Len(ingredients) * 50
        floorOf(random, n) == (random * n) \div 100
    IN  {[calories |-> Num(baseCalories + floorOf(first, 100)),
          protein |-> Grams(Num(floorOf(later, 20) + 10)),
          carbs |-> Grams(Num(floorOf(later, 30) + 20)),
          fat |-> Grams(Num(floorOf(later, 15) + 5)),
          fiber |-> Grams(Num(floorOf(later, 8) + 2)),
          sugar |-> Grams(Num(floorOf(later, 15) + 5))] :
            first \in 0..99, later \in {0, 99}}

\* The try block of analyzeIngredients on axios's answer, quantities held in
\* tenths: axios rejects on a failed exchange, and reading a property of a
\* missing data or a missing totalNutrients raises a TypeError.
NutritionalAnalysisService_fromEdamam(resp) ==
    LET round(x) == LET y == ToNumber(x)
                    IN  IF y = NaN THEN NaN ELSE Num((y.v + 5) \div 10)
        quantity(totalNutrients, code) ==
            LET nutrient == Field(totalNutrients, code)
            IN  IF Nullish(nutrient) THEN Num(0)
                ELSE OrElse(Field(nutrient, "quantity"), Num(0))
    IN  IF resp.kind # "ok" THEN Throw
        ELSE IF Nullish(resp.data) THEN Throw
        ELSE LET totalNutrients == Field(resp.data, "totalNutrients")
             IN  IF Nullish(totalNutrients) THEN Throw
                 ELSE Return(
                          [calories |-> round(Field(resp.data, "calories")),
                           protein |-> Grams(round(quantity(totalNutrients, "PROCNT"))),
                           carbs |-> Grams(round(quantity(totalNutrients, "CHOCDF"))),
                           fat |-> Grams(round(quantity(totalNutrients, "FAT"))),
                           fiber |-> Grams(round(quantity(totalNutrients, "FIBTG"))),
                           sugar |-> Grams(round(quantity(totalNutrients, "SUGAR")))],
                          "edamam", 1)

\* What the nutrition-details endpoint answers, quantities in tenths: a full
\* analysis, one with a single nutrient, one without calories, one without
\* totalNutrients, an empty body, a failed exchange.
EdamamResponses ==
    { [kind |-> "network_error"], [kind |-> "http_error"],
      [kind |-> "ok", data |-> Null],
      [kind |-> "ok", data |-> Obj([calories |-> Num(4126)])],
      [kind |-> "ok", data |->
          Obj([totalNutrients |-> Obj([PROCNT |-> Obj([quantity |-> Num(214)])])])],
      [kind |-> "ok", data |->
          Obj([calories |-> Num(4126),
               totalNutrients |-> Obj([PROCNT |-> Obj([quantity |-> Num(214)])])])],
      [kind |-> "ok", data |->
          Obj([calories |-> Num(4126),
               totalNutrients |->
                   Obj([PROCNT |-> Obj([quantity |-> Num(214)]),
                        CHOCDF |-> Obj([quantity |-> Num(305)]),
                        FAT |-> Obj([quantity |-> Num(95)]),
                        FIBTG |-> Obj([quantity |-> Num(0)]),
                        SUGAR |-> Obj([quantity |-> Num(48)])])])] }

\* analyzeIngredients up to its first await: the estimate when a credential
\* is missing, else the request to Edamam.
analyzeIngredients_call(ingredients) ==
    /\ Idle
    /\ response' = NoResponse
    /\ op' = "analyzeIngredients"
    /\ arg' = [ingredients |-> ingredients]
    /\ failed' = {}
    /\ IF ~apiKeys.edamamAppId \/ ~apiKeys.edamamAppKey
       THEN /\ pc' = "done"
            /\ requests' = <<>>
            /\ \E estimate \in NutritionalAnalysisService_estimateNutrition(ingredients) :
                   result' = Returned(Return(estimate, "estimate", 0))
       ELSE /\ pc' = "analyzeIngredients_edamam"
            /\ requests' = <<Request("edamam", "nutrition-details", ingredients)>>
            /\ result' = NoResult
    /\ UNCHANGED apiKeys

\* Variant for comparison: no try/catch around the Edamam call.
analyzeIngredients_edamamSettles_rethrows(resp) ==
    /\ pc = "analyzeIngredients_edamam"
    /\ response' = Answer("edamam", resp)
    /\ LET r == NutritionalAnalysisService_fromEdamam(resp)
       IN  /\ failed' = IF r.threw THEN failed \cup {"edamam"} ELSE failed
           /\ result' = IF r.threw THEN Thrown ELSE Returned(r)
    /\ pc' = "done"
    /\ UNCHANGED <<apiKeys, op, arg, requests>>

\* Edamam's answer arrives: return the values derived from it, or log the
\* error and return the estimate.
analyzeIngredients_edamamSettles(resp) ==
    /\ pc = "analyzeIngredients_edamam"
    /\ response' = Answer("edamam", resp)
    /\ LET r == NutritionalAnalysisService_fromEdamam(resp)
       IN  IF r.threw
           THEN /\ failed' = failed \cup {"edamam"}
                /\ \E estimate \in NutritionalAnalysisService_estimateNutrition(arg.ingredients) :
                       result' = Returned(Return(estimate, "estimate", 0))
           ELSE /\ failed' = failed
                /\ result' = Returned(r)
    /\ pc' = "done"
    /\ UNCHANGED <<apiKeys, op, arg, requests>>

\* ------------------------------------ category lookups made one after another

\* Most lookups a caller makes in a row.
MaxLookups == 2

\* Food names a caller looks up.
FoodNames ==
    {<<"C","h","i","c","k","e","n"," ","S","a","l","a","d">>, <<"S","u","s","h","i"," ","P","i","z","z","a">>, <<"i","c","e","-","c","r","e","a","m">>, <<"I","c","e"," ","C","r","e","a","m">>, <<"i","c","e","_","c","r","e","a","m">>,
     <<"E","g","g"," ","F","r","i","e","d"," ","R","i","c","e">>, <<"B","e","e","f"," ","B","u","r","g","e","r">>, <<"W","a","t","e","r">>}

\* Variant for comparison: a lookup after the first walks the table from its end.
categorizeFood_lookup_backwards(service, name) ==
    /\ Len(arg) < MaxLookups
    /\ arg' = Append(arg, [service |-> service, name |-> name])
    /\ LET table == IF service = "ClarifaiService"
                    THEN ClarifaiCategories ELSE DetectionCategories
           fallback == IF service = "ClarifaiService"
                       THEN <<"G","e","n","e","r","a","l">> ELSE <<"I","n","t","e","r","n","a","t","i","o","n","a","l">>
       IN  result' = Append(result,
                            IF arg = <<>> THEN FirstCategory(table, name, fallback)
                            ELSE FirstCategory_lastMatch(table, name, fallback))
    /\ UNCHANGED <<apiKeys, pc, op, requests, response, failed, page>>

\* One more lookup: categorizeFood of the given service applied to the name.
\* Here arg lists the lookups made so far and result what each returned.
categorizeFood_lookup(service, name) ==
    /\ Len(arg) < MaxLookups
    /\ arg' = Append(arg, [service |-> service, name |-> name])
    /\ result' = Append(result,
                        IF service = "ClarifaiService"
                        THEN ClarifaiService_categorizeFood(name)
                        ELSE FoodDetectionService_categorizeFood(name))
    /\ UNCHANGED <<apiKeys, pc, op, requests, response, failed, page>>

\* ------------------------------------------- pages/Index.tsx: the mock lookups

\* array.slice(from, to)
slice(a, from, to) == SubSeq(a, from + 1, IF to < Len(a) THEN to ELSE Len(a))

foodDetections ==
    << [name |-> <<"F","r","e","s","h"," ","G","a","r","d","e","n"," ","S","a","l","a","d">>, confidence |-> 920, category |-> <<"H","e","a","l","t","h","y">>,
        keywords |-> <<<<"s","a","l","a","d">>, <<"l","e","t","t","u","c","e">>, <<"g","r","e","e","n">>>>],
       [name |-> <<"G","r","i","l","l","e","d"," ","C","h","i","c","k","e","n"," ","B","r","e","a","s","t">>, confidence |-> 880, category |-> <<"P","r","o","t","e","i","n">>,
        keywords |-> <<<<"c","h","i","c","k","e","n">>, <<"m","e","a","t">>, <<"g","r","i","l","l","e","d">>>>],
       [name |-> <<"S","u","s","h","i"," ","R","o","l","l">>, confidence |-> 940, category |-> <<"J","a","p","a","n","e","s","e">>,
        keywords |-> <<<<"s","u","s","h","i">>, <<"r","o","l","l">>, <<"r","i","c","e">>>>],
       [name |-> <<"C","h","o","c","o","l","a","t","e"," ","C","a","k","e">>, confidence |-> 890, category |-> <<"D","e","s","s","e","r","t">>,
        keywords |-> <<<<"c","a","k","e">>, <<"c","h","o","c","o","l","a","t","e">>, <<"d","e","s","s","e","r","t">>>>],
       [name |-> <<"B","e","e","f"," ","B","u","r","g","e","r">>, confidence |-> 910, category |-> <<"A","m","e","r","i","c","a","n">>,
        keywords |-> <<<<"b","u","r","g","e","r">>, <<"b","e","e","f">>, <<"s","a","n","d","w","i","c","h">>>>],
       [name |-> <<"P","a","s","t","a"," ","C","a","r","b","o","n","a","r","a">>, confidence |-> 870, category |-> <<"I","t","a","l","i","a","n">>,
        keywords |-> <<<<"p","a","s","t","a">>, <<"n","o","o","d","l","e">>, <<"c","a","r","b","o","n","a","r","a">>>>],
       [name |-> <<"V","e","g","e","t","a","b","l","e"," ","S","t","i","r"," ","F","r","y">>, confidence |-> 850, category |-> <<"A","s","i","a","n">>,
        keywords |-> <<<<"v","e","g","e","t","a","b","l","e">>, <<"s","t","i","r">>, <<"w","o","k">>>>],
       [name |-> <<"F","r","e","s","h"," ","F","r","u","i","t"," ","B","o","w","l">>, confidence |-> 930, category |-> <<"H","e","a","l","t","h","y">>,
        keywords |-> <<<<"f","r","u","i","t">>, <<"b","o","w","l">>, <<"f","r","e","s","h">>>>],
       [name |-> <<"P","i","z","z","a"," ","M","a","r","g","h","e","r","i","t","a">>, confidence |-> 900, category |-> <<"I","t","a","l","i","a","n">>,
        keywords |-> <<<<"p","i","z","z","a">>, <<"c","h","e","e","s","e">>, <<"t","o","m","a","t","o">>>>],
       [name |-> <<"F","i","s","h"," ","a","n","d"," ","C","h","i","p","s">>, confidence |-> 860, category |-> <<"B","r","i","t","i","s","h">>,
        keywords |-> <<<<"f","i","s","h">>, <<"c","h","i","p","s">>, <<"f","r","i","e","d">>>>] >>

\* The name, confidence and category of the i-th entry of foodDetections.
Detection(i) ==
    [name |-> Str(foodDetections[i].name),
     confidence |-> Num(foodDetections[i].confidence),
     category |-> Str(foodDetections[i].category)]

\* A variant of analyzeImage that never looks at the image reference.
analyzeImage_anyEntry(imageUrl) ==
    {Detection(i) : i \in 1..Len(foodDetections)}

\* analyzeImage: the first entry one of whose keywords the lower-cased image
\* reference includes; without one, the entry at a Math.random() index, which
\* may be any. The set of the results the call can have.
analyzeImage(imageUrl) ==
    LET filename == toLowerCase(imageUrl)
        hits == {i \in 1..Len(foodDetections) :
                    \E k \in 1..Len(foodDetections[i].keywords) :
                        includes(filename, foodDetections[i].keywords[k])}
    IN  IF hits # {}
        THEN {Detection(CHOOSE i \in hits : \A j \in hits : i <= j)}
        ELSE {Detection(i) : i \in 1..Len(foodDetections)}

\* A mock recipe of the page; the code copies its other fields unread.
Recipe(id, title) == [id |-> Str(<<id>>), title |-> Str(<<title>>)]

\* allRecipes of pages/Index.tsx.
allRecipes ==
    [salad |-> <<Recipe("s1", "Caesar Salad"), Recipe("s2", "Mediterranean Salad")>>,
     chicken |-> <<Recipe("c1", "Herb Grilled Chicken"), Recipe("c2", "Chicken Teriyaki")>>,
     sushi |-> <<Recipe("su1", "California Roll"), Recipe("su2", "Salmon Nigiri")>>,
     pasta |-> <<Recipe("p1", "Classic Spaghetti Carbonara"),
                 Recipe("p2", "Marinara Pasta")>>,
     burger |-> <<Recipe("b1", "Classic Beef Burger"), Recipe("b2", "Turkey Burger")>>,
     cake |-> <<Recipe("ck1", "Chocolate Fudge Cake"), Recipe("ck2", "Vanilla Sponge Cake")>>,
     pizza |-> <<Recipe("pz1", "Classic Margherita Pizza"), Recipe("pz2", "Pepperoni Pizza")>>,
     fish |-> <<Recipe("f1", "Beer Battered Fish"), Recipe("f2", "Grilled Salmon")>>,
     vegetable |-> <<Recipe("v1", "Asian Vegetable Stir Fry"),
                     Recipe("v2", "Roasted Vegetable Medley")>>,
     fruit |-> <<Recipe("fr1", "Fresh Fruit Salad"), Recipe("fr2", "Fruit Smoothie Bowl")>>,
     default |-> <<Recipe("d1", "Quick Stir Fry"), Recipe("d2", "Simple Omelet")>>]

\* The if / else-if chain that picks recipeKey, in its order.
recipeKeys ==
    << [category |-> "salad", keywords |-> <<<<"s","a","l","a","d">>>>],
       [category |-> "chicken", keywords |-> <<<<"c","h","i","c","k","e","n">>>>],
       [category |-> "sushi", keywords |-> <<<<"s","u","s","h","i">>>>],
       [category |-> "pasta", keywords |-> <<<<"p","a","s","t","a">>, <<"c","a","r","b","o","n","a","r","a">>>>],
       [category |-> "burger", keywords |-> <<<<"b","u","r","g","e","r">>>>],
       [category |-> "cake", keywords |-> <<<<"c","a","k","e">>, <<"c","h","o","c","o","l","a","t","e">>>>],
       [category |-> "pizza", keywords |-> <<<<"p","i","z","z","a">>>>],
       [category |-> "fish", keywords |-> <<<<"f","i","s","h">>, <<"c","h","i","p","s">>>>],
       [category |-> "vegetable", keywords |-> <<<<"v","e","g","e","t","a","b","l","e">>, <<"s","t","i","r"," ","f","r","y">>>>],
       [category |-> "fruit", keywords |-> <<<<"f","r","u","i","t">>>>] >>

\* allRecipes of the API-backed page: fewer sets, two of them of one recipe.
allRecipes_apiPage ==
    [salad |-> <<Recipe("s1", "Caesar Salad"), Recipe("s2", "Mediterranean Salad")>>,
     chicken |-> <<Recipe("c1", "Herb Grilled Chicken"), Recipe("c2", "Chicken Teriyaki")>>,
     sushi |-> <<Recipe("su1", "California Roll")>>,
     pasta |-> <<Recipe("p1", "Classic Spaghetti Carbonara")>>,
     default |-> <<Recipe("d1", "Quick Stir Fry"), Recipe("d2", "Simple Omelet")>>]

recipeKeys_apiPage ==
    << [category |-> "salad", keywords |-> <<<<"s","a","l","a","d">>>>],
       [category |-> "chicken", keywords |-> <<<<"c","h","i","c","k","e","n">>>>],
       [category |-> "sushi", keywords |-> <<<<"s","u","s","h","i">>>>],
       [category |-> "pasta", keywords |-> <<<<"p","a","s","t","a">>>>] >>

\* The body of getRelevantRecipes over a table of sets and a chain of keys:
\* the set of the first key the lower-cased name includes (the default set
\* without one), extended from the default set when it has fewer than 3
\* recipes, cut to 4.
selectRecipes(sets, keys, foodName) ==
    LET recipeKey == FirstCategory(keys, foodName, "default")
        selectedRecipes == sets[recipeKey]
        padded == IF Len(selectedRecipes) < 3
                  THEN selectedRecipes
                       \o slice(sets.default, 0, 4 - Len(selectedRecipes))
                  ELSE selectedRecipes
    IN  slice(padded, 0, 4)

getRelevantRecipes(foodName, category) == selectRecipes(allRecipes, recipeKeys, foodName)

getRelevantRecipes_apiPage(foodName, category) ==
    selectRecipes(allRecipes_apiPage, recipeKeys_apiPage, foodName)

\* --------------------------------------------------- the upload page component

\* The page is built from pages/Index.tsx ("mock"), from its API-backed
\* version ("api"), or is absent ("none": the services are called directly).
PageVersions == {"none", "mock", "api"}

NoToast == [title |-> "none"]

Toast(title, aiService) == [title |-> title, aiService |-> aiService]

\* The state after the first render. Besides the React state: the toast
\* shown since the latest upload began, the pending setTimeout callbacks
\* (each holding its imageUrl), where the handler in flight waits, its
\* imageUrl, the image the latest mock analysis read, what produced the
\* latest detection stored ("mock" or a provider), and of the latest
\* handleSaveRecipe call its argument and the list it found.
PageInit(version) ==
    [version |-> version,
     uploadedImage |-> Null,
     detectedFood |-> Null,
     recipes |-> <<>>,
     isAnalyzing |-> FALSE,
     toast |-> NoToast,
     timers |-> <<>>,
     handler |-> "none",
     imageUrl |-> <<>>,
     analyzed |-> <<>>,
     detectedBy |-> "none",
     savedRecipes |-> <<>>,
     toggled |-> Null,
     savedBefore |-> <<>>]

\* The variables of the services.
svc == <<apiKeys, pc, op, arg, requests, response, failed, result>>

\* Math.round of a calorie count, a whole number where it is a number.
MathRound(x) == ToNumber(x)

\* apiRecipes.map(recipe => ({...recipe, nutrition: recipe.nutrition ? {...} : undefined}))
convertRecipes(apiRecipes) ==
    [i \in 1..Len(apiRecipes) |->
        LET nutrition == apiRecipes[i].nutrition
        IN  [apiRecipes[i] EXCEPT !.nutrition =
                IF Falsy(nutrition) THEN Undef
                ELSE Obj([calories |-> MathRound(Field(nutrition, "calories")),
                          protein |-> Field(nutrition, "protein"),
                          carbs |-> Field(nutrition, "carbs"),
                          fat |-> Field(nutrition, "fat")])]]

\* The mock analysis of `imageUrl` and what it stores, as the timer callback
\* and the catch block run it on a page in state `p`.
showMockDetection(p, imageUrl) ==
    \E mockDetection \in analyzeImage(imageUrl) :
        page' = [p EXCEPT
                    !.detectedFood = mockDetection,
                    !.recipes = IF p.version = "mock"
                                THEN getRelevantRecipes(mockDetection.name.v,
                                                        mockDetection.category.v)
                                ELSE getRelevantRecipes_apiPage(mockDetection.name.v,
                                                                mockDetection.category.v),
                    !.isAnalyzing = FALSE,
                    !.analyzed = imageUrl,
                    !.detectedBy = "mock"]

\* handleImageUpload of pages/Index.tsx: only schedules the mock analysis.
Index_handleImageUpload(imageUrl) ==
    /\ page.version = "mock"
    /\ page.uploadedImage = Null
    /\ Len(page.timers) < MaxTimers
    /\ page' = [page EXCEPT !.uploadedImage = Str(imageUrl),
                            !.isAnalyzing = TRUE,
                            !.imageUrl = imageUrl,
                            !.timers = Append(@, imageUrl)]
    /\ UNCHANGED svc

\* A setTimeout callback runs (they run in the order they were scheduled).
handleImageUpload_timeout ==
    /\ page.timers # <<>>
    /\ showMockDetection([page EXCEPT !.timers = Tail(@)], Head(page.timers))
    /\ UNCHANGED svc

\* handleImageUpload of the API-backed page up to its first await: demo mode
\* when neither detection provider is configured (the `finally` block runs on
\* the early return), else the call of analyzeFood. A behaviour holds one
\* upload that reaches the providers; uploads in demo mode may repeat.
handleImageUpload_call(imageUrl) ==
    /\ page.version = "api"
    /\ page.uploadedImage = Null
    /\ page.handler \in {"none", "returned"}
    /\ LET apiStatus == FoodApiService_isConfigured
           started == [page EXCEPT !.uploadedImage = Str(imageUrl),
                                   !.isAnalyzing = TRUE,
                                   !.imageUrl = imageUrl,
                                   !.toast = NoToast]
       IN  IF ~apiStatus.openai /\ ~apiStatus.clarifai
           THEN /\ Len(page.timers) < MaxTimers
                /\ page' = [started EXCEPT !.toast = Toast("Using Demo Mode", "none"),
                                           !.timers = Append(@, imageUrl),
                                           !.isAnalyzing = FALSE,
                                           !.handler = "returned"]
                /\ UNCHANGED svc
           ELSE /\ page.handler = "none"
                /\ analyzeFood_call(imageUrl)
                /\ page' = [started EXCEPT !.handler = "analyzeFood"]

\* The catch block and the `finally` block after it.
handleImageUpload_catch ==
    /\ showMockDetection([page EXCEPT !.toast = Toast("Detection Error", "none"),
                                      !.handler = "returned"],
                         page.imageUrl)
    /\ UNCHANGED svc

\* analyzeFood has settled: store the detection and call getRecipes, or catch.
handleImageUpload_detected ==
    /\ page.handler = "analyzeFood"
    /\ pc = "done"
    /\ IF result.kind = "throw"
       THEN handleImageUpload_catch
       ELSE LET detectionResult == result.value
            IN  /\ getRecipes_call(detectionResult)
                /\ page' = [page EXCEPT
                               !.detectedFood =
                                   [name |-> detectionResult.name,
                                    confidence |-> detectionResult.confidence,
                                    category |-> detectionResult.category,
                                    ingredients |-> detectionResult.ingredients],
                               !.detectedBy = SourceProvider(result.source),
                               !.handler = "getRecipes"]

\* getRecipes has settled: store the converted recipes and announce the
\* detection, or catch; then the `finally` block.
handleImageUpload_recipes ==
    /\ page.handler = "getRecipes"
    /\ pc = "done"
    /\ IF result.kind = "throw"
       THEN handleImageUpload_catch
       ELSE LET apiStatus == FoodApiService_isConfigured
                aiService == IF apiStatus.openai THEN "OpenAI"
                             ELSE IF apiStatus.clarifai THEN "Clarifai" ELSE "Demo"
            IN  /\ page' = [page EXCEPT !.recipes = convertRecipes(result.value),
                                        !.toast = Toast("Food Detected!", aiService),
                                        !.isAnalyzing = FALSE,
                                        !.handler = "returned"]
                /\ UNCHANGED svc

\* resetAnalysis, offered once an image is uploaded.
resetAnalysis ==
    /\ page.uploadedImage # Null
    /\ page' = [page EXCEPT !.uploadedImage = Null,
                            !.detectedFood = Null,
                            !.recipes = <<>>,
                            !.isAnalyzing = FALSE]
    /\ UNCHANGED svc

\* Variant for comparison: the id is appended without looking for it.
handleSaveRecipe_update_append(prev, recipeId) == Append(prev, recipeId)

\* The updater handleSaveRecipe hands to setSavedRecipes.
handleSaveRecipe_update(prev, recipeId) ==
    IF \E i \in 1..Len(prev) : prev[i] = recipeId
    THEN SelectSeq(prev, LAMBDA id : id # recipeId)
    ELSE Append(prev, recipeId)

\* handleSaveRecipe, which RecipeGrid calls with the id of a recipe it shows.
handleSaveRecipe(recipeId) ==
    /\ page.uploadedImage # Null
    /\ \E i \in 1..Len(page.recipes) : page.recipes[i].id = recipeId
    /\ page' = [page EXCEPT
                   !.savedRecipes = handleSaveRecipe_update(@, recipeId),
                   !.toggled = recipeId,
                   !.savedBefore = page.savedRecipes]
    /\ UNCHANGED svc
\* ------------------------------------------------------------- specification

ApiKeySets ==
    [openai : BOOLEAN, clarifai : BOOLEAN, spoonacular : BOOLEAN,
     google : BOOLEAN, huggingface : BOOLEAN]

\* A direct caller may use either service file. The API-backed page imports
\* lib/api only, which reads the OpenAI, Clarifai and Spoonacular keys;
\* pages/Index.tsx uses no provider.
Init ==
    /\ page \in {PageInit(v) : v \in PageVersions}
    /\ apiKeys \in ApiKeySets
    /\ page.version = "api" => ~apiKeys.google /\ ~apiKeys.huggingface
    /\ page.version = "mock" => \A k \in DOMAIN apiKeys : ~apiKeys[k]
    /\ pc = "idle"
    /\ op = "none"
    /\ arg = [image |-> <<>>]
    /\ requests = <<>>
    /\ response = NoResponse
    /\ failed = {}
    /\ result = NoResult

\* The services' own steps leave the page alone; a direct caller exists only
\* where there is no page.
Next ==
    \/ \E image \in Images :
           page.version = "none" /\ analyzeFood_call(image) /\ UNCHANGED page
    \/ \E resp \in OpenAIResponses : analyzeFood_openaiSettles(resp) /\ UNCHANGED page
    \/ \E resp \in ClarifaiResponses : analyzeFood_clarifaiSettles(resp) /\ UNCHANGED page
    \/ \E detectedFood \in DetectedFoodSamples :
           page.version = "none" /\ getRecipes_call(detectedFood) /\ UNCHANGED page
    \/ \E resp \in OpenAIRecipeResponses : getRecipes_openaiSettles(resp) /\ UNCHANGED page
    \/ \E resp \in SearchResponses : getRecipes_searchSettles(resp) /\ UNCHANGED page
    \/ \E resps \in DetailResponseLists(PendingDetails) :
           getRecipes_detailsSettle(resps) /\ UNCHANGED page
    \/ \E imageUrl \in Images :
           page.version = "none" /\ detectFood_call(imageUrl) /\ UNCHANGED page
    \/ \E resp \in OpenAIResponses : detectFood_openaiSettles(resp) /\ UNCHANGED page
    \/ \E resp \in VisionResponses : detectFood_googleSettles(resp) /\ UNCHANGED page
    \/ \E fetched \in BOOLEAN : detectFood_imageSettles(fetched) /\ UNCHANGED page
    \/ \E resp \in VisionResponses : detectFood_huggingfaceSettles(resp) /\ UNCHANGED page
    \/ \E detectedFood \in DetectedFoodSamples, count \in 1..MaxCount :
           /\ page.version = "none"
           /\ generateRecipes_call(detectedFood, count)
           /\ UNCHANGED page
    \/ \E resp \in OpenAIRecipeResponses : generateRecipes_openaiSettles(resp) /\ UNCHANGED page
    \/ \E imageUrl \in Images : Index_handleImageUpload(imageUrl)
    \/ \E imageUrl \in Images : handleImageUpload_call(imageUrl)
    \/ handleImageUpload_detected
    \/ handleImageUpload_recipes
    \/ handleImageUpload_timeout
    \/ resetAnalysis

Spec == Init /\ [][Next]_vars


\* ------------------------------------- specification of the nutrition lookup

\* A caller of NutritionalAnalysisService: no page, and of the credentials
\* only Edamam's matter.
InitNutrition ==
    /\ page = PageInit("none")
    /\ apiKeys \in [edamamAppId : BOOLEAN, edamamAppKey : BOOLEAN]
    /\ pc = "idle"
    /\ op = "none"
    /\ arg = [ingredients |-> <<>>]
    /\ requests = <<>>
    /\ response = NoResponse
    /\ failed = {}
    /\ result = NoResult

NextNutrition ==
    \/ \E ingredients \in IngredientLists :
           analyzeIngredients_call(ingredients) /\ UNCHANGED page
    \/ \E resp \in EdamamResponses :
           analyzeIngredients_edamamSettles(resp) /\ UNCHANGED page

SpecNutrition == InitNutrition /\ [][NextNutrition]_vars

\* ------------------------------------- specification of the category lookups

\* A caller that only categorizes names: no key is read, no page exists.
InitLookup ==
    /\ page = PageInit("none")
    /\ apiKeys = [k \in {"openai", "clarifai", "spoonacular", "google", "huggingface"} |-> FALSE]
    /\ pc = "idle"
    /\ op = "categorizeFood"
    /\ arg = <<>>
    /\ requests = <<>>
    /\ response = NoResponse
    /\ failed = {}
    /\ result = <<>>

NextLookup ==
    \E service \in {"ClarifaiService", "FoodDetectionService"}, name \in FoodNames :
        categorizeFood_lookup(service, name)

SpecLookup == InitLookup /\ [][NextLookup]_vars

\* -------------------------------------- specification of the saved recipes

\* pages/Index.tsx once the mock analysis of an uploaded image has shown its
\* recipes; from here on the user only saves and unsaves them.
InitSave ==
    /\ \E imageUrl \in Images : \E mockDetection \in analyzeImage(imageUrl) :
           page = [PageInit("mock") EXCEPT
                      !.uploadedImage = Str(imageUrl),
                      !.imageUrl = imageUrl,
                      !.detectedFood = mockDetection,
                      !.recipes = getRelevantRecipes(mockDetection.name.v,
                                                     mockDetection.category.v),
                      !.analyzed = imageUrl,
                      !.detectedBy = "mock"]
    /\ apiKeys = [k \in {"openai", "clarifai", "spoonacular", "google", "huggingface"} |-> FALSE]
    /\ pc = "idle"
    /\ op = "none"
    /\ arg = [image |-> <<>>]
    /\ requests = <<>>
    /\ response = NoResponse
    /\ failed = {}
    /\ result = NoResult

NextSave ==
    \E i \in 1..Len(page.recipes) : handleSaveRecipe(page.recipes[i].id)

SpecSave == InitSave /\ [][NextSave]_vars
\* --------------------------------------------------------------- properties

DetectionOps == {"analyzeFood", "detectFood"}

RecipeOps == {"getRecipes", "generateRecipes"}

Finished == pc = "done"

IsDetectRequest(r) == r.what = "detectFood"

LastRequest == requests[Len(requests)]

\* C1: food detection never throws to its caller: a finished analyzeFood or
\* detectFood call has returned a detection result, whatever providers are
\* configured and whatever they answered.
C1_DetectionNeverThrows ==
    (Finished /\ op \in DetectionOps) => result.kind = "return"

\* The recipe providers the operation in progress may use.
ConfiguredRecipeProviders ==
    IF op = "getRecipes"
    THEN {p \in {"openai", "spoonacular"} : apiKeys[p]}
    ELSE {p \in {"openai"} : apiKeys[p]}

\* C2: recipe retrieval never throws to its caller: a finished getRecipes or
\* generateRecipes call has returned a list, and the list is the mock recipes
\* when no recipe provider is configured or every configured one failed.
C2_RecipesNeverThrow ==
    (Finished /\ op \in RecipeOps) =>
        /\ result.kind = "return"
        /\ DOMAIN result.value = 1..Len(result.value)
        /\ (ConfiguredRecipeProviders \subseteq failed) => result.source = "mock"

C2_Witness ==
    /\ Finished
    /\ op = "getRecipes"
    /\ failed = {"openai", "spoonacular"}
    /\ result.kind = "return"
    /\ result.source = "mock"

\* C3: within one detection call the providers are asked in the fixed priority
\* order (analyzeFood: OpenAI, Clarifai; detectFood: OpenAI, Google Vision,
\* Hugging Face): every configured provider of higher priority than one that
\* was asked has been asked before it and has failed, and a returned provider
\* result comes from the provider asked last, which did not fail.
C3_PriorityOrder ==
    op \in DetectionOps =>
        LET chain == IF op = "analyzeFood" THEN <<"openai", "clarifai">>
                     ELSE <<"openai", "google", "huggingface">>
            asked == SelectSeq(requests, IsDetectRequest)
            rank(p) == CHOOSE k \in 1..Len(chain) : chain[k] = p
        IN  /\ \A i \in 1..Len(asked) : \A k \in 1..(rank(asked[i].provider) - 1) :
                   apiKeys[chain[k]] =>
                       /\ chain[k] \in failed
                       /\ \E m \in 1..(i - 1) : asked[m].provider = chain[k]
            /\ (result.kind = "return" /\ result.source # "mock") =>
                   /\ Len(asked) > 0
                   /\ asked[Len(asked)].provider = SourceProvider(result.source)
                   /\ SourceProvider(result.source) \notin failed

C3_Witness ==
    /\ Finished
    /\ op = "detectFood"
    /\ failed = {"openai", "google"}
    /\ result.kind = "return"
    /\ result.source = "huggingface"

\* C4: provider failures are isolated: when the primary provider (OpenAI) has
\* failed and the configured secondary (Clarifai for detection, Spoonacular
\* for recipes) succeeds, the call returns exactly what the secondary made of
\* its answer, and nothing is thrown.
C4_SecondaryResultReturned ==
    /\ (Finished /\ op = "analyzeFood" /\ "openai" \in failed /\ clarifaiService) =>
           /\ LastRequest.provider = "clarifai"
           /\ response.from = "clarifai"
           /\ "clarifai" \notin failed =>
                  /\ result.kind = "return"
                  /\ result = Returned(ClarifaiService_detectFood(response.answer))
    /\ (Finished /\ op = "getRecipes" /\ "openai" \in failed /\ spoonacularService) =>
           /\ LastRequest.provider = "spoonacular"
           /\ response.from = "spoonacular"
           /\ "spoonacular" \notin failed =>
                  /\ result.kind = "return"
                  /\ result.source = "spoonacular"
                  /\ LastRequest.what = "information" =>
                         result = Returned(SpoonacularService_collectDetails(response.answer))

C4_Witness ==
    /\ Finished
    /\ op = "analyzeFood"
    /\ failed = {"openai"}
    /\ result.kind = "return"
    /\ result.source = "clarifai"

InUnitInterval(c) == c.t = "number" /\ 0 <= c.v /\ c.v <= ConfOne

\* C5: every detection result that detectFood / analyzeFood returns has a
\* confidence in [0, 1], whichever provider or fallback produced it.
C5_ConfidenceInUnitInterval ==
    (Finished /\ op \in DetectionOps /\ result.kind = "return") =>
        InUnitInterval(result.value.confidence)

\* A field of a returned recipe: of the record the provider code built, or of
\* the parsed JSON element that was returned as it is.
RecipeField(recipe, f) ==
    IF "t" \in DOMAIN recipe THEN Field(recipe, f) ELSE recipe[f]

Difficulties == {Str(<<"Easy">>), Str(<<"Medium">>), Str(<<"Hard">>)}

\* C6: every returned detection result has a name and a category, and every
\* returned recipe has a non-null id, title, description, image, cookTime,
\* ingredients list and instructions list and a difficulty among Easy, Medium,
\* Hard, whatever the provider payload held.
C6_FullyPopulated ==
    (Finished /\ result.kind = "return") =>
        IF op \in DetectionOps
        THEN /\ result.value.name.t = "string"
             /\ result.value.category.t = "string"
        ELSE \A i \in 1..Len(result.value) :
                /\ \A f \in {"id", "title", "description", "image", "cookTime"} :
                       RecipeField(result.value[i], f).t = "string"
                /\ \A f \in {"ingredients", "instructions"} :
                       RecipeField(result.value[i], f).t = "array"
                /\ RecipeField(result.value[i], "difficulty") \in Difficulties

\* C7: when recipe retrieval falls back to the mock recipes with a requested
\* count of 4, the returned list has between 3 and 4 recipes.
C7_MockCountBetween3And4 ==
    (Finished /\ op \in RecipeOps /\ result.kind = "return"
        /\ result.source = "mock" /\ arg.count = 4) =>
        Len(result.value) \in 3..4

\* The latest answer is OpenAI's, with content whose embedded JSON could not
\* be extracted or parsed.
OpenAIUnparsable ==
    /\ response.from = "openai"
    /\ response.answer.kind = "ok"
    /\ ~Falsy(response.answer.content)
    /\ response.answer.content.json \in {Undef, InvalidJson}

C9_RecipeFallbackOrder ==
    op = "getRecipes" =>
        LET searched == {i \in 1..Len(requests) : requests[i].provider = "spoonacular"}
            generated == {i \in 1..Len(requests) : requests[i].provider = "openai"}
        IN  /\ searched # {} => (~openaiService \/ "openai" \in failed)
            /\ \A i \in generated, j \in searched : i < j
            /\ (result.kind = "return" /\ result.source = "mock") =>
                   /\ ~openaiService \/ "openai" \in failed
                   /\ ~spoonacularService \/ "spoonacular" \in failed

C9_Witness ==
    /\ Finished
    /\ op = "getRecipes"
    /\ failed = {"openai"}
    /\ result.kind = "return"
    /\ result.source = "spoonacular"
    /\ Len(result.value) > 0

\* C10: the number of recipes returned equals the requested count whenever the
\* source that produced them could supply at least that many.
C10_CountHonoured ==
    (Finished /\ op \in RecipeOps /\ result.kind = "return"
        /\ result.available >= arg.count) =>
        Len(result.value) = arg.count

\* C11: whenever the recipe source chosen for a call yields fewer than 3
\* recipes the list is extended from the default mock recipes, and no list of
\* recipes, returned by getRecipes or stored by the page, has more than 4.
C11_PaddedToAtMost4 ==
    /\ (Finished /\ op = "getRecipes" /\ result.kind = "return") =>
           /\ Len(result.value) <= 4
           /\ result.available < 3 => Len(result.value) > result.available
    /\ Len(page.recipes) <= 4

\* Whether the category of a result that Clarifai or Hugging Face produced is
\* the first category of the service's table, in its order, with a keyword
\* that the lower-cased label includes, and `general` or `international`
\* (for lib/api and lib/aiServices) when no category has one.
CategorizedByFirstMatch(general, international) ==
    (Finished /\ result.kind = "return"
        /\ result.source \in {"clarifai", "huggingface"}) =>
        LET viaClarifai == result.source = "clarifai"
            label == IF viaClarifai THEN response.answer.concepts[1].name.v
                     ELSE response.answer.labels[1].text.v
            table == IF viaClarifai THEN ClarifaiCategories ELSE DetectionCategories
            lower == toLowerCase(label)
            hit(i) == \E k \in 1..Len(table[i].keywords) :
                          includes(lower, table[i].keywords[k])
            category == result.value.category.v
        IN  IF \E i \in 1..Len(table) : hit(i)
            THEN \E i \in 1..Len(table) :
                    /\ hit(i)
                    /\ \A j \in 1..(i - 1) : ~hit(j)
                    /\ category = table[i].category
            ELSE category = IF viaClarifai THEN general ELSE international

C13_CategoryOfNormalizedName ==
    (Finished /\ result.kind = "return"
        /\ result.source \in {"clarifai", "google", "huggingface"}) =>
        result.value.category.v =
            IF result.source = "clarifai"
            THEN ClarifaiService_categorizeFood(result.value.name.v)
            ELSE FoodDetectionService_categorizeFood(result.value.name.v)

\* C14: with no provider configured, the name "Chicken Teriyaki Bowl" is
\* categorized "Protein" by both categorizeFood functions, the recipe set
\* keyed "chicken" is the one selected for it, and the list getRecipes
\* returns for it is that set followed by default recipes, 4 entries in all.
C14_ChickenSetPaddedTo4 ==
    LET chickenBowl == <<"C","h","i","c","k","e","n"," ","T","e","r","i","y","a","k","i"," ","B","o","w","l">>
        chickenSet == getRelevantRecipes(chickenBowl, <<"P","r","o","t","e","i","n">>)
    IN  /\ ClarifaiService_categorizeFood(chickenBowl) = <<"P","r","o","t","e","i","n">>
        /\ FoodDetectionService_categorizeFood(chickenBowl) = <<"P","r","o","t","e","i","n">>
        /\ FirstCategory(recipeKeys, chickenBowl, "default") = "chicken"
        /\ Len(chickenSet) = 4
        /\ (Finished /\ op = "getRecipes" /\ result.kind = "return"
               /\ ~openaiService /\ ~spoonacularService
               /\ arg.detectedFood.name = Str(chickenBowl)) =>
               [i \in 1..Len(result.value) |-> result.value[i].id]
                   = [i \in 1..Len(chickenSet) |-> chickenSet[i].id]

\* C15: a provider without a credential is skipped. Every request of a call
\* goes to a provider whose key is present (the image download of the Hugging
\* Face method counts as Hugging Face's), and a call ends with an error only
\* when nothing was left to fall back on: only analyzeFood, which has no mock
\* data behind it, and only after every configured provider has failed.
C15_AbsentProviderSkipped ==
    /\ \A i \in 1..Len(requests) :
           apiKeys[IF requests[i].provider = "image" THEN "huggingface"
                   ELSE requests[i].provider]
    /\ (Finished /\ result.kind = "throw") =>
           /\ op = "analyzeFood"
           /\ \A p \in {"openai", "clarifai"} : apiKeys[p] => p \in failed

\* analyzeFood has returned Clarifai's result without OpenAI's key, having
\* asked Clarifai only.
C15_Witness ==
    /\ Finished /\ op = "analyzeFood"
    /\ ~apiKeys.openai /\ apiKeys.clarifai
    /\ result.kind = "return" /\ result.source = "clarifai"
    /\ Len(requests) = 1 /\ requests[1].provider = "clarifai"

C18_UploadEndsWithResult ==
    (page.version = "api" /\ page.handler = "returned" /\ page.timers = <<>>
        /\ page.uploadedImage # Null) =>
        /\ page.detectedFood # Null
        /\ Len(page.recipes) > 0
        /\ ~page.isAnalyzing
        /\ page.toast # NoToast

\* C19: getRecipes returns at least one recipe when Spoonacular's search has
\* answered successfully with no recipe: the mock recipes stand in.
C19_EmptySearchBackedByMock ==
    (Finished /\ op = "getRecipes" /\ response.from = "spoonacular"
        /\ LastRequest.what = "findByIngredients"
        /\ response.answer.kind = "ok" /\ response.answer.data = <<>>) =>
        /\ result.kind = "return"
        /\ Len(result.value) > 0

\* C20: the provider configuration never changes and a call's course does not
\* depend on earlier calls. No step changes a key, so isConfigured() answers
\* the same before and after every call, and a call that issues a request
\* starts with the first provider, in the operation's order, whose key is set.
C20_ConfigurationImmutable ==
    [][/\ apiKeys' = apiKeys
       /\ FoodApiService_isConfigured' = FoodApiService_isConfigured
       /\ (Idle /\ pc' \notin {"idle", "done"}) =>
              /\ Len(requests') = 1
              /\ requests'[1].provider =
                     CASE op' = "analyzeFood" ->
                              IF apiKeys.openai THEN "openai" ELSE "clarifai"
                       [] op' = "getRecipes" ->
                              IF apiKeys.openai THEN "openai" ELSE "spoonacular"
                       [] op' = "detectFood" ->
                              IF apiKeys.openai THEN "openai"
                              ELSE IF apiKeys.google THEN "google" ELSE "image"
                       [] OTHER -> "openai"]_vars

\* The page has fallen back to the mock analysis after both detection
\* providers failed, and the service still reports all three as configured.
C20_Witness ==
    /\ page.toast.title = "Detection Error"
    /\ failed = {"openai", "clarifai"}
    /\ FoodApiService_isConfigured
           = [openai |-> TRUE, clarifai |-> TRUE, spoonacular |-> TRUE]

\* ------------------------------------------------------ nutrition, the page

\* C21: the nutrition lookup never throws. A finished analyzeIngredients call
\* has returned: the values derived from Edamam's answer when both
\* credentials are present and the call succeeded (axios resolved with a body
\* holding totalNutrients), and otherwise the local estimate, whose calories
\* lie in 50 n .. 50 n + 99 for n ingredients.
C21_NutritionNeverThrows ==
    (Finished /\ op = "analyzeIngredients") =>
        LET n == Len(arg.ingredients)
            succeeded == /\ apiKeys.edamamAppId /\ apiKeys.edamamAppKey
                         /\ response.from = "edamam"
                         /\ response.answer.kind = "ok"
                         /\ ~Nullish(Field(response.answer.data, "totalNutrients"))
        IN  /\ result.kind = "return"
            /\ succeeded =>
                   /\ result.source = "edamam"
                   /\ result.value = NutritionalAnalysisService_fromEdamam(response.answer).value
                   /\ result.value.calories \in {NaN, Num(413)}
                   /\ Len(requests) = 1
            /\ ~succeeded =>
                   /\ result.source = "estimate"
                   /\ result.value.calories.t = "number"
                   /\ result.value.calories.v >= 50 * n
                   /\ result.value.calories.v <= 50 * n + 99
                   /\ (apiKeys.edamamAppId /\ apiKeys.edamamAppKey) <=> Len(requests) = 1

\* With both credentials present Edamam's call failed, and the estimate for
\* two ingredients came back with the largest calorie count, 199.
C21_Witness ==
    /\ Finished /\ op = "analyzeIngredients"
    /\ apiKeys.edamamAppId /\ apiKeys.edamamAppKey
    /\ "edamam" \in failed
    /\ Len(arg.ingredients) = 2
    /\ result.kind = "return"
    /\ result.value.calories = Num(199)

C23_ResultBelongsToShownImage ==
    (page.uploadedImage # Null
        /\ (page.detectedFood # Null \/ page.recipes # <<>>)
        /\ page.detectedBy = "mock") =>
        page.uploadedImage = Str(page.analyzed)

\* C24: once reset, the page stays in its initial state until the next
\* upload: with no image shown there is no detection, no recipe and no
\* analysis in progress, whatever was pending when resetAnalysis ran.
C24_ResetStays ==
    page.uploadedImage = Null =>
        /\ page.detectedFood = Null
        /\ page.recipes = <<>>
        /\ ~page.isAnalyzing

\* C25: on the API-backed page the analysing indicator is on for as long as
\* the detection of the shown image is pending (a timer callback or the
\* analyzeFood call) and no detection is stored yet.
C25_AnalyzingCoversDetection ==
    (page.version = "api" /\ page.uploadedImage # Null /\ page.detectedFood = Null
        /\ (page.timers # <<>> \/ page.handler = "analyzeFood")) =>
        page.isAnalyzing

\* C26: the "Food Detected!" toast names the provider whose call returned the
\* detection on the page.
C26_ToastNamesDetector ==
    (page.toast.title = "Food Detected!" /\ page.detectedFood # Null) =>
        page.toast.aiService =
            CASE page.detectedBy = "openai" -> "OpenAI"
              [] page.detectedBy = "clarifai" -> "Clarifai"
              [] OTHER -> "Demo"

\* C27: the recipe search is never asked with an empty ingredient list: when
\* the detection carries no ingredients (none at all, or an empty list) the
\* search request holds the detected food's name instead.
C27_SearchNeverEmpty ==
    \A i \in 1..Len(requests) :
        requests[i].what = "findByIngredients" =>
            LET given == arg.detectedFood.ingredients
                asked == requests[i].payload.ingredients
            IN  /\ asked.v # <<>>
                /\ (given = Undef \/ given = Arr(<<>>)) =>
                       asked = Arr(<<arg.detectedFood.name>>)

\* C28: the recipe search is all or nothing. When the detail requests of a
\* search have settled, getRecipes has returned either one recipe per
\* candidate, each built from that candidate's answer, or, when the detail
\* request of any candidate failed, the mock recipes with Spoonacular counted
\* as failed; never some of the candidates' recipes.
C28_SearchAllOrNothing ==
    (Finished /\ op = "getRecipes" /\ requests # <<>> /\ LastRequest.what = "information") =>
        LET resps == response.answer
            each == [i \in 1..Len(resps) |-> SpoonacularService_getRecipeDetails(resps[i])]
        IN  /\ Len(resps) = PendingDetails
            /\ result.kind = "return"
            /\ IF \E i \in 1..Len(each) : each[i].threw
               THEN /\ "spoonacular" \in failed
                    /\ result.source = "mock"
                    /\ result.value = FoodApiService_getMockRecipes(arg.detectedFood)
               ELSE /\ "spoonacular" \notin failed
                    /\ result.source = "spoonacular"
                    /\ result.value = [i \in 1..Len(each) |-> each[i].value]

\* Of two candidates the first one's details arrived and the second one's
\* request failed: getRecipes has returned the mock recipes.
C28_Witness ==
    /\ Finished /\ op = "getRecipes" /\ requests # <<>> /\ LastRequest.what = "information"
    /\ Len(response.answer) = 2
    /\ response.answer[1].kind = "ok" /\ ~Nullish(Field(response.answer[1].recipe, "id"))
    /\ response.answer[2].kind = "http_error"
    /\ result.source = "mock"

\* C29: handleSaveRecipe(id) toggles exactly that id, and toggling it once
\* more restores the list it found. After a call the id is saved iff it was
\* not before, the other ids are saved as before and in the same order, no
\* id is saved twice, and a second call with the same id would give back the
\* list the first call found.
C29_ToggleTwiceRestoresList ==
    page.toggled # Null =>
        LET id == page.toggled
            was == page.savedBefore
            now == page.savedRecipes
            saved(list) == \E i \in 1..Len(list) : list[i] = id
            others(list) == SelectSeq(list, LAMBDA x : x # id)
        IN  /\ saved(now) <=> ~saved(was)
            /\ others(now) = others(was)
            /\ \A i, j \in 1..Len(now) : now[i] = now[j] => i = j
            /\ handleSaveRecipe_update(now, id) = was

\* C29 amended: the same, except that a second call with the same id gives
\* back the same saved ids, and the same list only when the id was not saved
\* before the first call or was the last of the list: an id that is unsaved
\* and saved again moves to the end.
C29_ToggleTwiceRestoresSet ==
    page.toggled # Null =>
        LET id == page.toggled
            was == page.savedBefore
            now == page.savedRecipes
            again == handleSaveRecipe_update(now, id)
            saved(list) == \E i \in 1..Len(list) : list[i] = id
            others(list) == SelectSeq(list, LAMBDA x : x # id)
        IN  /\ saved(now) <=> ~saved(was)
            /\ others(now) = others(was)
            /\ \A i, j \in 1..Len(now) : now[i] = now[j] => i = j
            /\ {again[i] : i \in 1..Len(again)} = {was[i] : i \in 1..Len(was)}
            /\ Len(again) = Len(was)
            /\ again = IF saved(was) THEN Append(others(was), id) ELSE was
            /\ again = was <=> (~saved(was) \/ was[Len(was)] = id)

\* "c1", saved first of two recipes, has just been unsaved: saving it again
\* would put it after "c2".
C29_Witness ==
    /\ page.toggled = Str(<<"c1">>)
    /\ page.savedBefore = <<Str(<<"c1">>), Str(<<"c2">>)>>
    /\ page.savedRecipes = <<Str(<<"c2">>)>>

\* C30: determineDifficulty is a monotone threshold function of cook time
\* and ingredient count that agrees with what the recipe shows. Every recipe
\* getRecipes returns from Spoonacular is "Easy" iff the minutes in its
\* cookTime field are at most 15 and its ingredients at most 5, else "Medium"
\* iff they are at most 45 and at most 10, else "Hard"; and around the
\* thresholds a larger input never gives a lower difficulty.
C30_DifficultyAgreesWithCookTime ==
    LET byThreshold(minutes, count) ==
            IF minutes <= 15 /\ count <= 5 THEN Str(<<"Easy">>)
            ELSE IF minutes <= 45 /\ count <= 10 THEN Str(<<"Medium">>)
            ELSE Str(<<"Hard">>)
        rank(difficulty) ==
            CASE difficulty = Str(<<"Easy">>) -> 1
              [] difficulty = Str(<<"Medium">>) -> 2
              [] difficulty = Str(<<"Hard">>) -> 3
        minutesAround == {0, 15, 16, 30, 45, 46}
        countsAround == {0, 5, 6, 10, 11}
    IN  (Finished /\ op = "getRecipes" /\ result.kind = "return"
            /\ result.source = "spoonacular") =>
            /\ \A m1, m2 \in minutesAround, c1, c2 \in countsAround :
                   /\ SpoonacularService_determineDifficulty(Num(m1), Num(c1))
                          = byThreshold(m1, c1)
                   /\ (m1 <= m2 /\ c1 <= c2) =>
                          rank(SpoonacularService_determineDifficulty(Num(m1), Num(c1)))
                              <= rank(SpoonacularService_determineDifficulty(Num(m2), Num(c2)))
            /\ \A i \in 1..Len(result.value) :
                   LET recipe == result.value[i]
                       shown == CHOOSE n \in 0..100 : ToString(n) = recipe.cookTime.v[1]
                   IN  recipe.difficulty = byThreshold(shown, Len(recipe.ingredients.v))

====
